---- MODULE Spec2Model ----
(***************************************************************************)
(* A model of the local bundling cache of vscode-bundle-size-plus:         *)
(* LocalBundler (src/src/bundler/LocalBundler.ts), its positive and        *)
(* negative caches, the pending-build map, the cache generation and the    *)
(* memoized esbuild handles.  JavaScript runs one task at a time, so every *)
(* action below is one synchronous run of code between two suspension      *)
(* points (an await).                                                      *)
(***************************************************************************)
EXTENDS Integers, Sequences, FiniteSets, TLC

\* ------------------------------------------------------------------ bounds
MaxBuilds == 2
MaxClears == 1
MaxTicks == 1
MaxWaiters == 2
MaxNamed == 3
MaxImports == 1

\* ------------------------------------------------------- program constants
failedCacheDuration == 5 * 60 * 1000
cacheDuration == 60 * 60 * 1000

\* Date.now() is a positive number of milliseconds since the epoch.
StartTime == 1000 * 1000

\* The clock moves by one of these amounts: the negative TTL, or a millisecond
\* less.
Deltas == {failedCacheDuration - 1, failedCacheDuration}

\* The same around the positive TTL.
CacheDeltas == {cacheDuration - 1, cacheDuration}

Roots == {"/w1"}

\* BundleRequest values (id, displayName, entryContent, versionPackageName);
\* "null" stands for a null versionPackageName.
Requests ==
  { [id |-> "a", displayName |-> "a", entryContent |-> "export * from 'a';",
     versionPackageName |-> "a"],
    [id |-> "b", displayName |-> "b", entryContent |-> "import './b';",
     versionPackageName |-> "null"] }

Ids == {q.id : q \in Requests}

\* What esbuild.build can do once it has been invoked: files, no files, an
\* exception; "unavailable" is bundleEntry returning before it has an esbuild.
BuildOutcomes == {"ok", "empty", "throw", "unavailable"}

\* What reading node_modules/<pkg>/package.json can do: give a manifest with a
\* version, give one without (or with an empty one), find no file, throw.
ManifestStates == {"readable", "noversion", "missing", "throws"}

\* The manifests of the requests made under Spec.
Manifests == {"readable", "throws"}

OutputFiles == {[minified |-> 2048, gzip |-> 812]}

VARIABLES
  now,                    \* Date.now()
  ticks,                  \* how often the clock has moved
  cache,                  \* Map<string, CacheEntry>
  pendingBuilds,          \* Map<string, PendingBuild>
  failedPackages,         \* Map<string, number>
  cacheGeneration,        \* number
  workspaceEsbuildCache,  \* Map<string, EsbuildModule | null>
  globalEsbuildModule,    \* EsbuildModule | null
  triedGlobalEsbuild,     \* boolean
  warnedMissingEsbuild,   \* Set<string>
  warnings,               \* history: the messages logged since the last clearCache
  builds,                 \* every buildAndMeasure call so far, by promise
  lastFailure,            \* history: the last failedPackages.set of each key
  lastSuccess,            \* history: the last cache.set of each key
  lastCall                \* the call made by the last step, if it was one

engineVars == <<cache, pendingBuilds, failedPackages, cacheGeneration>>
esbuildVars == <<workspaceEsbuildCache, globalEsbuildModule, triedGlobalEsbuild,
                 warnedMissingEsbuild, warnings>>
vars == <<now, ticks, cache, pendingBuilds, failedPackages, cacheGeneration,
          workspaceEsbuildCache, globalEsbuildModule, triedGlobalEsbuild,
          warnedMissingEsbuild, warnings, builds, lastFailure, lastSuccess,
          lastCall>>

\* ------------------------------------------------------------------- maps
EmptyMap == [x \in {} |-> 0]

MapHas(m, k) == k \in DOMAIN m

MapSet(m, k, v) == [x \in DOMAIN m \cup {k} |-> IF x = k THEN v ELSE m[x]]

MapDelete(m, k) == [x \in DOMAIN m \ {k} |-> m[x]]

\* ----------------------------------------------------------------- values
Null == [null |-> TRUE]

Unsettled == [unsettled |-> TRUE]

NoCall == [op |-> "none"]

NoPending == [generation |-> -1, promise |-> 0]

CacheKey(workspaceRoot, id) == workspaceRoot \o ":" \o id

KeySet == {CacheKey(r, i) : r \in Roots, i \in Ids}

\* --------------------------------------------------------------- freshness
\* A negative entry still fresh at an age equal to the TTL.
FailedFreshInclusive(cacheKey) ==
  /\ cacheKey \in DOMAIN failedPackages
  /\ failedPackages[cacheKey] # 0
  /\ now - failedPackages[cacheKey] <= failedCacheDuration

\* A positive entry that lives as long as a negative one.
CacheFreshForFailedDuration(cacheKey) ==
  MapHas(cache, cacheKey) /\ now - cache[cacheKey].timestamp < failedCacheDuration

\* A positive entry still fresh at an age equal to the TTL.
CacheFreshInclusive(cacheKey) ==
  MapHas(cache, cacheKey) /\ now - cache[cacheKey].timestamp <= cacheDuration

CacheFresh(cacheKey) ==
  MapHas(cache, cacheKey) /\ now - cache[cacheKey].timestamp < cacheDuration

FailedFresh(cacheKey) ==
  /\ MapHas(failedPackages, cacheKey)
  /\ failedPackages[cacheKey] # 0
  /\ now - failedPackages[cacheKey] < failedCacheDuration

PendingCurrent(cacheKey, generation) ==
  MapHas(pendingBuilds, cacheKey) /\ pendingBuilds[cacheKey].generation = generation

PendingGet(cacheKey) ==
  IF MapHas(pendingBuilds, cacheKey) THEN pendingBuilds[cacheKey] ELSE NoPending

\* ---------------------------------------------------------------- esbuild
\* How esbuild can be reached through the workspace's Vite: not at all, from
\* the entry require.resolve('vite') gives, or only from the real path of
\* node_modules/vite (require.resolve failing on an ESM-only Vite).
ViteStates == {"none", "entry", "directory"}

\* What the file system holds when esbuild is looked for: fs.workspace and
\* fs.global say whether a require from the workspace root and from a global
\* path succeeds, fs.vite how a require from Vite's dependency tree does.
FileSystems == [workspace : BOOLEAN, vite : ViteStates, global : BOOLEAN]

\* The file systems met under Spec: esbuild in the workspace, or nowhere.
WorkspaceOrNone == {fs \in FileSystems : ~fs.global /\ fs.vite = "none"}

\* tryLoadEsbuildFromWorkspace never looking at Vite.
TryLoadEsbuildFromWorkspaceWithoutVite(workspaceRoot, fs) ==
  IF fs.workspace THEN "workspace" ELSE "null"

\* tryLoadEsbuildFromWorkspace: the module (named after where it was found),
\* or "null".
TryLoadEsbuildFromWorkspace(workspaceRoot, fs) ==
  IF fs.workspace THEN "workspace"
  ELSE IF fs.vite = "entry" THEN "vite"
  ELSE IF fs.vite = "directory" THEN "vite"
  ELSE "null"

\* tryLoadEsbuildFromGlobal: the module it returns and the two variables it sets.
TryLoadEsbuildFromGlobal(fs) ==
  IF triedGlobalEsbuild
    THEN [module |-> globalEsbuildModule, globalEsbuildModule |-> globalEsbuildModule,
          triedGlobalEsbuild |-> TRUE]
    ELSE LET m == IF fs.global THEN "global" ELSE "null"
         IN  [module |-> m, globalEsbuildModule |-> m, triedGlobalEsbuild |-> TRUE]

\* How many messages have been logged for a scope since the last clearCache.
Logged(scope) == IF MapHas(warnings, scope) THEN warnings[scope] ELSE 0

\* warnMissingEsbuildOnce logging its message on every call.
WarnMissingEsbuildEveryTime(scope) ==
  [warnedMissingEsbuild |-> warnedMissingEsbuild \cup {scope},
   warnings |-> MapSet(warnings, scope, Logged(scope) + 1)]

\* warnMissingEsbuildOnce(scope): the set afterwards and the messages logged.
WarnMissingEsbuildOnce(scope) ==
  IF scope \in warnedMissingEsbuild
    THEN [warnedMissingEsbuild |-> warnedMissingEsbuild, warnings |-> warnings]
    ELSE [warnedMissingEsbuild |-> warnedMissingEsbuild \cup {scope},
          warnings |-> MapSet(warnings, scope, Logged(scope) + 1)]

\* getEsbuild looking in the workspace again after it has found nothing there.
GetEsbuildRetrying(workspaceRoot, fs) ==
  LET same == [module |-> "null",
               workspaceEsbuildCache |-> workspaceEsbuildCache,
               globalEsbuildModule |-> globalEsbuildModule,
               triedGlobalEsbuild |-> triedGlobalEsbuild,
               warnedMissingEsbuild |-> warnedMissingEsbuild,
               warnings |-> warnings]
      known == MapHas(workspaceEsbuildCache, workspaceRoot)
  IN  IF known /\ workspaceEsbuildCache[workspaceRoot] # "null"
        THEN [same EXCEPT !.module = workspaceEsbuildCache[workspaceRoot]]
        ELSE
          LET workspaceLoad == TryLoadEsbuildFromWorkspace(workspaceRoot, fs)
              ws == MapSet(workspaceEsbuildCache, workspaceRoot, workspaceLoad)
              globalLoad == TryLoadEsbuildFromGlobal(fs)
          IN  IF workspaceLoad # "null"
                THEN [same EXCEPT !.module = workspaceLoad, !.workspaceEsbuildCache = ws]
                ELSE IF globalLoad.module # "null"
                  THEN [same EXCEPT !.module = globalLoad.module,
                                    !.workspaceEsbuildCache = ws,
                                    !.globalEsbuildModule = globalLoad.globalEsbuildModule,
                                    !.triedGlobalEsbuild = globalLoad.triedGlobalEsbuild]
                  ELSE [same EXCEPT !.workspaceEsbuildCache = ws,
                                    !.globalEsbuildModule = globalLoad.globalEsbuildModule,
                                    !.triedGlobalEsbuild = globalLoad.triedGlobalEsbuild,
                                    !.warnedMissingEsbuild =
                                        WarnMissingEsbuildOnce(workspaceRoot).warnedMissingEsbuild,
                                    !.warnings =
                                        WarnMissingEsbuildOnce(workspaceRoot).warnings]

\* getEsbuild(workspaceRoot): the module it returns ("null" for none) and the
\* state it leaves behind.
GetEsbuild(workspaceRoot, fs) ==
  LET same == [module |-> "null",
               workspaceEsbuildCache |-> workspaceEsbuildCache,
               globalEsbuildModule |-> globalEsbuildModule,
               triedGlobalEsbuild |-> triedGlobalEsbuild,
               warnedMissingEsbuild |-> warnedMissingEsbuild,
               warnings |-> warnings]
      known == MapHas(workspaceEsbuildCache, workspaceRoot)
      globalLoad == TryLoadEsbuildFromGlobal(fs)
  IN  IF workspaceRoot = ""
        THEN IF globalLoad.module # "null"
               THEN [same EXCEPT !.module = globalLoad.module,
                                 !.globalEsbuildModule = globalLoad.globalEsbuildModule,
                                 !.triedGlobalEsbuild = globalLoad.triedGlobalEsbuild]
               ELSE [same EXCEPT !.globalEsbuildModule = globalLoad.globalEsbuildModule,
                                 !.triedGlobalEsbuild = globalLoad.triedGlobalEsbuild,
                                 !.warnedMissingEsbuild =
                                     WarnMissingEsbuildOnce("global").warnedMissingEsbuild,
                                 !.warnings = WarnMissingEsbuildOnce("global").warnings]
      ELSE IF known /\ workspaceEsbuildCache[workspaceRoot] # "null"
        THEN [same EXCEPT !.module = workspaceEsbuildCache[workspaceRoot]]
        ELSE
          LET workspaceLoad == TryLoadEsbuildFromWorkspace(workspaceRoot, fs)
              ws == IF known THEN workspaceEsbuildCache
                    ELSE MapSet(workspaceEsbuildCache, workspaceRoot, workspaceLoad)
          IN  IF ~known /\ workspaceLoad # "null"
                THEN [same EXCEPT !.module = workspaceLoad, !.workspaceEsbuildCache = ws]
                ELSE IF globalLoad.module # "null"
                  THEN [same EXCEPT !.module = globalLoad.module,
                                    !.workspaceEsbuildCache = ws,
                                    !.globalEsbuildModule = globalLoad.globalEsbuildModule,
                                    !.triedGlobalEsbuild = globalLoad.triedGlobalEsbuild]
                  ELSE [same EXCEPT !.workspaceEsbuildCache = ws,
                                    !.globalEsbuildModule = globalLoad.globalEsbuildModule,
                                    !.triedGlobalEsbuild = globalLoad.triedGlobalEsbuild,
                                    !.warnedMissingEsbuild =
                                        WarnMissingEsbuildOnce(workspaceRoot).warnedMissingEsbuild,
                                    !.warnings =
                                        WarnMissingEsbuildOnce(workspaceRoot).warnings]

\* The assignments a call of getEsbuild makes.
SetEsbuild(e) ==
  /\ workspaceEsbuildCache' = e.workspaceEsbuildCache
  /\ globalEsbuildModule' = e.globalEsbuildModule
  /\ triedGlobalEsbuild' = e.triedGlobalEsbuild
  /\ warnedMissingEsbuild' = e.warnedMissingEsbuild
  /\ warnings' = e.warnings

\* ------------------------------------------------------------ measurement
\* getPackageVersion: the version string, or "null"; every exception is caught.
GetPackageVersion(manifest) ==
  IF manifest = "readable" THEN "1.0.0" ELSE "null"

\* A versionPackageName that is null or the empty string.
NoPackageName(request) == request.versionPackageName \in {"null", ""}

\* versionLabel with "unknown" for a request without a versionPackageName.
VersionLabelNeverLocal(request, manifest) ==
  IF GetPackageVersion(manifest) # "null" THEN GetPackageVersion(manifest)
  ELSE "unknown"

\* versionLabel of buildAndMeasure.
VersionLabel(request, manifest) ==
  IF ~NoPackageName(request)
    THEN (IF GetPackageVersion(manifest) # "null" THEN GetPackageVersion(manifest)
          ELSE "unknown")
    ELSE "local"

\* bundleEntry summing the sizes of no output files into a result.
BundleEntryEmptyIsZero(esbuild, outcome, files) ==
  IF ~esbuild THEN [rejected |-> FALSE, value |-> Null]
  ELSE IF outcome = "throw" THEN [rejected |-> FALSE, value |-> Null]
  ELSE IF outcome = "empty"
    THEN [rejected |-> FALSE, value |-> [minified |-> 0, gzip |-> 0]]
  ELSE [rejected |-> FALSE,
        value |-> [minified |-> files.minified, gzip |-> files.gzip]]

\* bundleEntry: how its promise settles.  esbuild is FALSE when getEsbuild found
\* no module; outcome is what esbuild.build did otherwise.  The catch around
\* the whole body turns an exception into null.
BundleEntry(esbuild, outcome, files) ==
  IF ~esbuild THEN [rejected |-> FALSE, value |-> Null]
  ELSE IF outcome = "throw" THEN [rejected |-> FALSE, value |-> Null]
  ELSE IF outcome = "empty" THEN [rejected |-> FALSE, value |-> Null]
  ELSE [rejected |-> FALSE,
        value |-> [minified |-> files.minified, gzip |-> files.gzip]]

\* The BundleSizeResult buildAndMeasure makes of a bundleEntry result; ref is the
\* identity of the object (one per buildAndMeasure call).
SizeResult(b, result) ==
  [name |-> builds[b].request.displayName, size |-> result.minified,
   gzip |-> result.gzip,
   version |-> VersionLabel(builds[b].request, builds[b].manifest), ref |-> b]

\* buildAndMeasure committing whatever the generation is.
BuildAndMeasureAnyGeneration(b, settled) ==
  LET cacheKey == builds[b].cacheKey
  IN  IF settled.rejected \/ settled.value = Null
        THEN [rejected |-> FALSE, value |-> Null, cache |-> cache,
              failedPackages |-> MapSet(failedPackages, cacheKey, now),
              wrote |-> "failedPackages"]
        ELSE [rejected |-> FALSE, value |-> SizeResult(b, settled.value),
              cache |-> MapSet(cache, cacheKey,
                               [data |-> SizeResult(b, settled.value),
                                timestamp |-> now]),
              failedPackages |-> failedPackages,
              wrote |-> "cache"]

\* buildAndMeasure giving its callers null when a clearCache has run meanwhile.
BuildAndMeasureNullWhenStale(b, settled) ==
  LET cacheKey == builds[b].cacheKey
      current == (builds[b].generation = cacheGeneration)
  IN  IF settled.rejected \/ settled.value = Null \/ ~current
        THEN [rejected |-> FALSE, value |-> Null,
              cache |-> cache,
              failedPackages |->
                IF current THEN MapSet(failedPackages, cacheKey, now)
                ELSE failedPackages,
              wrote |-> IF current THEN "failedPackages" ELSE "none"]
        ELSE [rejected |-> FALSE, value |-> SizeResult(b, settled.value),
              cache |-> MapSet(cache, cacheKey,
                               [data |-> SizeResult(b, settled.value),
                                timestamp |-> now]),
              failedPackages |-> failedPackages,
              wrote |-> "cache"]

\* The part of buildAndMeasure after `await this.bundleEntry(...)`: how its
\* promise settles, the two caches afterwards and which of them was written.
BuildAndMeasure(b, settled) ==
  LET cacheKey == builds[b].cacheKey
      generation == builds[b].generation
      current == (generation = cacheGeneration)
  IN  IF settled.rejected \/ settled.value = Null
        THEN [rejected |-> FALSE, value |-> Null,
              cache |-> cache,
              failedPackages |->
                IF current THEN MapSet(failedPackages, cacheKey, now)
                ELSE failedPackages,
              wrote |-> IF current THEN "failedPackages" ELSE "none"]
        ELSE [rejected |-> FALSE, value |-> SizeResult(b, settled.value),
              cache |->
                IF current
                  THEN MapSet(cache, cacheKey,
                              [data |-> SizeResult(b, settled.value),
                               timestamp |-> now])
                  ELSE cache,
              failedPackages |-> failedPackages,
              wrote |-> IF current THEN "cache" ELSE "none"]

\* ---------------------------------------------------------------- actions
\* getBundleSize never looking for a pending build.
GetBundleSizePathNoDedup(cacheKey, generation) ==
  IF CacheFresh(cacheKey) THEN "cached"
  ELSE IF FailedFresh(cacheKey) THEN "failed"
  ELSE "started"

\* getBundleSize looking for a pending build before a recent failure.
GetBundleSizePathPendingFirst(cacheKey, generation) ==
  IF CacheFresh(cacheKey) THEN "cached"
  ELSE IF PendingCurrent(cacheKey, generation) THEN "joined"
  ELSE IF FailedFresh(cacheKey) THEN "failed"
  ELSE "started"

\* getBundleSize building again whatever has failed recently.
GetBundleSizePathRetryingFailed(cacheKey, generation) ==
  IF CacheFresh(cacheKey) THEN "cached"
  ELSE IF PendingCurrent(cacheKey, generation) THEN "joined"
  ELSE "started"

\* Which of its four ways getBundleSize takes for a key.
GetBundleSizePath(cacheKey, generation) ==
  IF CacheFresh(cacheKey) THEN "cached"
  ELSE IF FailedFresh(cacheKey) THEN "failed"
  ELSE IF PendingCurrent(cacheKey, generation) THEN "joined"
  ELSE "started"

\* getBundleSize up to its await (or its return).
GetBundleSize(request, workspaceRoot, manifest, fs) ==
  LET cacheKey == CacheKey(workspaceRoot, request.id)
      generation == cacheGeneration
      path == GetBundleSizePath(cacheKey, generation)
      call == [op |-> "getBundleSize", key |-> cacheKey, path |-> path,
               pending |-> PendingGet(cacheKey), len |-> Len(builds),
               warned |-> workspaceRoot \in warnedMissingEsbuild]
  IN
  /\ lastCall = NoCall
  /\ NoPackageName(request) <=> (manifest = "none")
  /\ \/ /\ path = "cached"
        /\ lastCall' = call @@ [ret |-> cache[cacheKey].data, promise |-> 0]
        /\ UNCHANGED <<now, ticks, engineVars, esbuildVars, builds, lastFailure,
                 lastSuccess>>
     \/ /\ path = "failed"
        /\ lastCall' = call @@ [ret |-> Null, promise |-> 0]
        /\ UNCHANGED <<now, ticks, engineVars, esbuildVars, builds, lastFailure,
                 lastSuccess>>
     \/ /\ path = "joined"
        /\ LET b == pendingBuilds[cacheKey].promise
           IN  /\ builds[b].waiters < MaxWaiters
               /\ builds' = [builds EXCEPT ![b].waiters = @ + 1]
               /\ lastCall' = call @@ [ret |-> Unsettled, promise |-> b]
        /\ UNCHANGED <<now, ticks, engineVars, esbuildVars, lastFailure,
                 lastSuccess>>
     \/ /\ path = "started"
        /\ Len(builds) < MaxBuilds
        /\ LET e == GetEsbuild(workspaceRoot, fs)
               b == Len(builds) + 1
           IN    /\ SetEsbuild(e)
                 /\ builds' = Append(builds,
                      [request |-> request, workspaceRoot |-> workspaceRoot,
                       cacheKey |-> cacheKey, generation |-> generation,
                       manifest |-> manifest,
                       esbuild |-> (e.module # "null"),
                       outcome |-> "none", cleared |-> FALSE,
                       phase |-> "bundling", rejected |-> FALSE,
                       value |-> Unsettled, waiters |-> 1,
                       resolveCache |-> EmptyMap, waiting |-> << >>,
                       resolves |-> EmptyMap, events |-> 0])
                 /\ pendingBuilds' = MapSet(pendingBuilds, cacheKey,
                                            [generation |-> generation, promise |-> b])
                 /\ lastCall' = call @@ [ret |-> Unsettled, promise |-> b]
        /\ UNCHANGED <<now, ticks, cache, failedPackages, cacheGeneration,
                       lastFailure,
                 lastSuccess>>

\* Builds settling one after the other, in the order they were started.
BuildSettleInOrder(b, outcome, files) ==
  /\ \A earlier \in 1..(b - 1) :
       earlier \in 1..Len(builds) => builds[earlier].phase # "bundling"
  /\ lastCall = NoCall
  /\ b \in 1..Len(builds)
  /\ builds[b].phase = "bundling"
  /\ ~builds[b].esbuild <=> (outcome = "unavailable")
  /\ LET r == BuildAndMeasure(b, BundleEntry(builds[b].esbuild, outcome, files))
     IN  /\ cache' = r.cache
         /\ failedPackages' = r.failedPackages
         /\ builds' = [builds EXCEPT ![b].phase = "settled", ![b].value = r.value,
                                     ![b].rejected = r.rejected,
                                     ![b].outcome = outcome]
         /\ lastFailure' =
               IF r.wrote = "failedPackages"
                 THEN MapSet(lastFailure, builds[b].cacheKey,
                             [timestamp |-> now, generation |-> builds[b].generation])
                 ELSE lastFailure
         /\ lastSuccess' =
               IF r.wrote = "cache"
                 THEN MapSet(lastSuccess, builds[b].cacheKey,
                             [timestamp |-> now, generation |-> builds[b].generation,
                              data |-> r.value])
                 ELSE lastSuccess
  /\ lastCall' = NoCall
  /\ UNCHANGED <<now, ticks, pendingBuilds, cacheGeneration, esbuildVars>>

\* bundleEntry settles and buildAndMeasure runs to its return.
BuildSettle(b, outcome, files) ==
  /\ lastCall = NoCall
  /\ b \in 1..Len(builds)
  /\ builds[b].phase = "bundling"
  /\ ~builds[b].esbuild <=> (outcome = "unavailable")
  /\ LET r == BuildAndMeasure(b, BundleEntry(builds[b].esbuild, outcome, files))
     IN  /\ cache' = r.cache
         /\ failedPackages' = r.failedPackages
         /\ builds' = [builds EXCEPT ![b].phase = "settled", ![b].value = r.value,
                                     ![b].rejected = r.rejected,
                                     ![b].outcome = outcome]
         /\ lastFailure' =
               IF r.wrote = "failedPackages"
                 THEN MapSet(lastFailure, builds[b].cacheKey,
                             [timestamp |-> now, generation |-> builds[b].generation])
                 ELSE lastFailure
         /\ lastSuccess' =
               IF r.wrote = "cache"
                 THEN MapSet(lastSuccess, builds[b].cacheKey,
                             [timestamp |-> now, generation |-> builds[b].generation,
                              data |-> r.value])
                 ELSE lastSuccess
  /\ lastCall' = NoCall
  /\ UNCHANGED <<now, ticks, pendingBuilds, cacheGeneration, esbuildVars>>

\* What is kept of a build once the getBundleSize call that started it has
\* returned: its key and the generation it was started under.
Done(build) ==
  [phase |-> "done", generation |-> build.generation, cleared |-> build.cleared,
   cacheKey |-> build.cacheKey]

\* The finally block leaving the pending entry where it is.
FinallyKeepsEntry(b) ==
  /\ lastCall = NoCall
  /\ b \in 1..Len(builds)
  /\ builds[b].phase = "settled"
  /\ builds' = [builds EXCEPT ![b] = Done(@)]
  /\ lastCall' = NoCall
  /\ UNCHANGED <<now, ticks, engineVars, esbuildVars, lastFailure, lastSuccess>>

\* The finally block deleting the pending entry of the key whoever holds it.
FinallyAnyPromise(b) ==
  /\ lastCall = NoCall
  /\ b \in 1..Len(builds)
  /\ builds[b].phase = "settled"
  /\ pendingBuilds' = MapDelete(pendingBuilds, builds[b].cacheKey)
  /\ builds' = [builds EXCEPT ![b] = Done(@)]
  /\ lastCall' = NoCall
  /\ UNCHANGED <<now, ticks, cache, failedPackages, cacheGeneration, esbuildVars,
                 lastFailure, lastSuccess>>

\* The finally block of the getBundleSize call that started build b.
Finally(b) ==
  /\ lastCall = NoCall
  /\ b \in 1..Len(builds)
  /\ builds[b].phase = "settled"
  /\ LET cacheKey == builds[b].cacheKey
     IN  pendingBuilds' =
           IF MapHas(pendingBuilds, cacheKey) /\ pendingBuilds[cacheKey].promise = b
             THEN MapDelete(pendingBuilds, cacheKey) ELSE pendingBuilds
  /\ builds' = [builds EXCEPT ![b] = Done(@)]
  /\ lastCall' = NoCall
  /\ UNCHANGED <<now, ticks, cache, failedPackages, cacheGeneration, esbuildVars,
                 lastFailure,
                 lastSuccess>>

\* getCachedBundleSize.
GetCachedBundleSize(id, workspaceRoot) ==
  LET cacheKey == CacheKey(workspaceRoot, id)
  IN  /\ lastCall = NoCall
      /\ lastCall' = [op |-> "getCachedBundleSize", key |-> cacheKey,
                      ret |-> IF CacheFresh(cacheKey) THEN cache[cacheKey].data ELSE Null]
      /\ UNCHANGED <<now, ticks, engineVars, esbuildVars, builds, lastFailure,
                 lastSuccess>>

\* isBundlingAvailable.
IsBundlingAvailable(workspaceRoot, fs) ==
    LET e == GetEsbuild(workspaceRoot, fs)
    IN
      /\ lastCall = NoCall
      /\ SetEsbuild(e)
      /\ lastCall' = [op |-> "isBundlingAvailable", root |-> workspaceRoot,
                      fs |-> fs,
                      warned |-> workspaceRoot \in warnedMissingEsbuild,
                      cached |-> IF MapHas(workspaceEsbuildCache, workspaceRoot)
                                   THEN workspaceEsbuildCache[workspaceRoot]
                                   ELSE "undefined",
                      tried |-> triedGlobalEsbuild,
                      global |-> globalEsbuildModule,
                      module |-> e.module,
                      ret |-> (e.module # "null")]
      /\ UNCHANGED <<now, ticks, engineVars, builds, lastFailure,
                 lastSuccess>>

\* What getBundleCacheState returns; available is isBundlingAvailable's answer.
BundleCacheState(cacheKey, available) ==
  IF CacheFresh(cacheKey) THEN "cached"
  ELSE IF PendingCurrent(cacheKey, cacheGeneration) THEN "pending"
  ELSE IF FailedFresh(cacheKey) THEN "failed"
  ELSE IF ~available THEN "unavailable"
  ELSE "missing"

\* Whether getBundleCacheState gets as far as calling isBundlingAvailable.
AsksAvailability(cacheKey) ==
  /\ ~CacheFresh(cacheKey)
  /\ ~PendingCurrent(cacheKey, cacheGeneration)
  /\ ~FailedFresh(cacheKey)

\* getBundleCacheState evicting a negative entry that has expired.
GetBundleCacheStateEvicting(id, workspaceRoot, fs) ==
    LET cacheKey == CacheKey(workspaceRoot, id)
        e == GetEsbuild(workspaceRoot, fs)
    IN
      /\ lastCall = NoCall
      /\ IF AsksAvailability(cacheKey) THEN SetEsbuild(e) ELSE UNCHANGED esbuildVars
      /\ lastCall' = [op |-> "getBundleCacheState", key |-> cacheKey,
                      ret |-> BundleCacheState(cacheKey, e.module # "null")]
      /\ failedPackages' =
            IF MapHas(failedPackages, cacheKey) /\ ~FailedFresh(cacheKey)
              THEN MapDelete(failedPackages, cacheKey) ELSE failedPackages
      /\ UNCHANGED <<now, ticks, cache, pendingBuilds, cacheGeneration, builds,
                     lastFailure,
                 lastSuccess>>

\* getBundleCacheState.
GetBundleCacheState(id, workspaceRoot, fs) ==
    LET cacheKey == CacheKey(workspaceRoot, id)
        e == GetEsbuild(workspaceRoot, fs)
    IN
      /\ lastCall = NoCall
      /\ IF AsksAvailability(cacheKey) THEN SetEsbuild(e) ELSE UNCHANGED esbuildVars
      /\ lastCall' = [op |-> "getBundleCacheState", key |-> cacheKey,
                      ret |-> BundleCacheState(cacheKey, e.module # "null")]
      /\ UNCHANGED <<now, ticks, engineVars, builds, lastFailure,
                 lastSuccess>>

\* clearCache emptying the two result caches only.
ClearCacheResultsOnly ==
  [cacheGeneration |-> cacheGeneration, cache |-> EmptyMap,
   pendingBuilds |-> pendingBuilds, failedPackages |-> EmptyMap]

\* clearCache leaving the recent failures in place.
ClearCacheKeepsFailed ==
  [cacheGeneration |-> cacheGeneration + 1, cache |-> EmptyMap,
   pendingBuilds |-> EmptyMap, failedPackages |-> failedPackages]

\* clearCache leaving the pending builds in the map.
ClearCacheKeepsPending ==
  [cacheGeneration |-> cacheGeneration + 1, cache |-> EmptyMap,
   pendingBuilds |-> pendingBuilds, failedPackages |-> EmptyMap]

\* clearCache: the engine's fields afterwards.
ClearCacheState ==
  [cacheGeneration |-> cacheGeneration + 1, cache |-> EmptyMap,
   pendingBuilds |-> EmptyMap, failedPackages |-> EmptyMap]

\* clearCache.  Every build in flight is marked as having seen a clearCache.
ClearCache ==
  /\ lastCall = NoCall
  /\ cacheGeneration < MaxClears
  /\ cacheGeneration' = ClearCacheState.cacheGeneration
  /\ cache' = ClearCacheState.cache
  /\ pendingBuilds' = ClearCacheState.pendingBuilds
  /\ failedPackages' = ClearCacheState.failedPackages
  /\ workspaceEsbuildCache' = EmptyMap
  /\ globalEsbuildModule' = "null"
  /\ triedGlobalEsbuild' = FALSE
  /\ warnedMissingEsbuild' = {}
  /\ warnings' = EmptyMap
  /\ builds' = [b \in 1..Len(builds) |->
                  IF builds[b].phase = "bundling"
                    THEN [builds[b] EXCEPT !.cleared = TRUE] ELSE builds[b]]
  /\ lastCall' = NoCall
  /\ UNCHANGED <<now, ticks, lastFailure,
                 lastSuccess>>

\* Time passes.  The finally block of getBundleSize runs in the microtask after
\* buildAndMeasure returns: the clock does not move by a TTL in between.
Tick(d) ==
  /\ lastCall = NoCall
  /\ ticks < MaxTicks
  /\ \A b \in 1..Len(builds) : builds[b].phase # "settled"
  /\ ticks' = ticks + 1
  /\ now' = now + d
  /\ lastCall' = NoCall
  /\ UNCHANGED <<engineVars, esbuildVars, builds, lastFailure,
                 lastSuccess>>

\* The caller takes the result of the call: every call is followed by this
\* step before anything else runs.
Return ==
  /\ lastCall # NoCall
  /\ lastCall' = NoCall
  /\ UNCHANGED <<now, ticks, engineVars, esbuildVars, builds, lastFailure,
                 lastSuccess>>

\* -------------------------------------------------------------- formatSize
\* formatSize(bytes), on integer byte counts.  A value with two decimals is
\* kept as its number of hundredths.

\* The constant k of formatSize (k is taken as a bound name below).
UnitBase == 1024

sizes == <<"B", "KB", "MB", "GB">>

\* Math.floor(Math.log(bytes) / Math.log(k)), for 1 <= bytes < k^4.
UnitIndex(bytes) ==
  IF bytes < UnitBase THEN 0
  ELSE IF bytes < UnitBase * UnitBase THEN 1
  ELSE IF bytes < UnitBase * UnitBase * UnitBase THEN 2
  ELSE 3

\* Math.pow(k, i), for i up to 3.
Pow(i) ==
  IF i = 0 THEN 1
  ELSE IF i = 1 THEN UnitBase
  ELSE IF i = 2 THEN UnitBase * UnitBase
  ELSE UnitBase * UnitBase * UnitBase

\* parseFloat((bytes / Math.pow(k, i)).toFixed(2)), in hundredths: toFixed
\* rounds the exact quotient to the nearest hundredth, a tie upwards.
RoundedValue(bytes, i) ==
  LET unit == Pow(i)
      whole == bytes \div unit
      rest == bytes % unit
  IN  IF i = 0 THEN 100 * bytes
      ELSE 100 * whole + (100 * rest + unit \div 2) \div unit

\* value % 1 === 0 ? value.toFixed(0) : value.toString()
FormattedValue(value) ==
  LET whole == value \div 100
      decimals == value % 100
  IN  IF decimals = 0 THEN ToString(whole)
      ELSE IF decimals % 10 = 0
        THEN ToString(whole) \o "." \o ToString(decimals \div 10)
      ELSE IF decimals < 10
        THEN ToString(whole) \o ".0" \o ToString(decimals)
      ELSE ToString(whole) \o "." \o ToString(decimals)

\* What formatSize returns.
FormatSizeText(bytes) ==
  IF bytes = 0 THEN "0B"
  ELSE LET i == UnitIndex(bytes)
       IN  FormattedValue(RoundedValue(bytes, i)) \o sizes[i + 1]

\* formatSize.
FormatSize(bytes) ==
  /\ lastCall = NoCall
  /\ lastCall' = [op |-> "formatSize", bytes |-> bytes,
                  value |-> IF bytes = 0 THEN 0
                            ELSE RoundedValue(bytes, UnitIndex(bytes)),
                  ret |-> FormatSizeText(bytes)]
  /\ UNCHANGED <<now, ticks, engineVars, esbuildVars, builds, lastFailure,
                 lastSuccess>>

\* The byte counts formatted: the small ones, those around a change of unit
\* and some in between.
ByteCounts ==
  (0 .. 1100) \cup ((UnitBase * UnitBase - 8) .. (UnitBase * UnitBase + 8))
    \cup ((UnitBase * UnitBase * UnitBase - 8) .. (UnitBase * UnitBase * UnitBase + 8))
    \cup {1152, 1536, 24576, 1234567, 5 * UnitBase * UnitBase + 52429,
            UnitBase * UnitBase * UnitBase + 15 * UnitBase * UnitBase}

\* ------------------------------------------------------------- resolution
\* What bundleEntry hands to esbuild: the external list and the plugin that
\* externalizes what a package in node_modules imports and nobody can find.
\* A specifier is the sequence of its pieces, where ".", "/" and ":" are pieces
\* of their own; a file path is the sequence of its segments.

Undefined == [undefined |-> TRUE]

\* The names on the external list of the build options.
ExternalNames ==
  {"fs", "path", "os", "crypto", "stream", "util", "events", "buffer", "http",
   "https", "url", "querystring", "zlib", "net", "tls", "child_process",
   "cluster", "dgram", "dns", "readline", "repl", "tty", "vm", "assert",
   "constants", "domain", "punycode", "string_decoder", "timers", "console",
   "process", "worker_threads", "perf_hooks", "async_hooks", "inspector",
   "trace_events", "v8"}

\* The size of a module on disk and of the entry's own code, in bytes.
ModuleBytes == 20000
EntryBytes == 100

ImportPaths ==
  { <<"B">>, <<"events">>, <<"node", ":", "path">>, <<".", "/", "rel">>,
    <<"addon", ".", "node">> }

Importers ==
  { <<"<stdin>">>, <<"w1", "src", "a.js">>,
    <<"w1", "node_modules", "A", "index.js">> }

\* One import of the module graph: who imports what, and whether a file is
\* found for it by the resolution from the importer's directory upwards
\* (node_modules/A/node_modules/B before node_modules/B).
Imports == [importer : Importers, path : ImportPaths, found : BOOLEAN]

\* The module graph of an entry, as the imports met while bundling it that
\* are not found at once: EntryBytes stands for the rest of the graph.
ModuleGraphs == UNION {[1..n -> Imports] : n \in 0..MaxImports}

\* The gzip sizes of an output.
GzipSizes == {812}

\* The requests whose entry is bundled import by import.
ResolveRequests ==
  { [id |-> "g", displayName |-> "g", entryContent |-> graph,
     versionPackageName |-> "null"] : graph \in ModuleGraphs }

\* isInNodeModules: the path has a segment node_modules between separators.
IsInNodeModules(filePath) ==
  \E i \in 1..(Len(filePath) - 1) : filePath[i] = "node_modules"

\* The filter /\.node$/.
MatchesNodeAddon(path) ==
  Len(path) >= 2 /\ path[Len(path) - 1] = "." /\ path[Len(path)] = "node"

\* The filter /^[^./][^:]*$/.
MatchesBare(path) ==
  /\ Len(path) >= 1
  /\ path[1] \notin {".", "/"}
  /\ \A i \in 2..Len(path) : path[i] # ":"

\* The external list without its entry "node:*".
IsExternalWithoutNodeProtocol(path) ==
  Len(path) >= 1 /\ path[1] \in ExternalNames /\ (Len(path) = 1 \/ path[2] = "/")

\* The `external` option of the build: "node:*" and the names of the list (a
\* name also stands for the paths below it).
IsExternal(path) ==
  \/ Len(path) >= 2 /\ path[1] = "node" /\ path[2] = ":"
  \/ Len(path) >= 1 /\ path[1] \in ExternalNames /\ (Len(path) = 1 \/ path[2] = "/")

\* esbuild's own resolution, for a path no plugin has answered.
DefaultResolve(args) ==
  IF IsExternal(args.path)
    THEN [errors |-> 0, path |-> args.path, external |-> TRUE]
  ELSE IF args.found
    THEN [errors |-> 0, path |-> <<"resolved">> \o args.path, external |-> FALSE]
  ELSE [errors |-> 1, path |-> << >>, external |-> FALSE]

\* The first onResolve callback of the plugin.
OnResolveNodeAddon(args) ==
  IF MatchesNodeAddon(args.path)
    THEN [errors |-> 0, path |-> args.path, external |-> TRUE]
    ELSE Undefined

RECURSIVE Resolve(_)

\* The second callback never externalizing.
OnResolveBareStrict(args) ==
  IF ~MatchesBare(args.path) THEN Undefined
  ELSE IF args.skipResolve THEN Undefined
  ELSE IF args.importer = << >> \/ ~IsInNodeModules(args.importer) THEN Undefined
  ELSE Resolve([args EXCEPT !.skipResolve = TRUE])

\* The second callback whoever the importer is.
OnResolveBareAnyImporter(args) ==
  IF ~MatchesBare(args.path) THEN Undefined
  ELSE IF args.skipResolve THEN Undefined
  ELSE LET resolved == Resolve([args EXCEPT !.skipResolve = TRUE])
       IN  IF resolved.errors > 0
             THEN [errors |-> 0, path |-> args.path, external |-> TRUE]
             ELSE resolved

\* The second callback externalizing without looking.
OnResolveBareAlwaysExternal(args) ==
  IF ~MatchesBare(args.path) THEN Undefined
  ELSE IF args.skipResolve THEN Undefined
  ELSE IF args.importer = << >> \/ ~IsInNodeModules(args.importer) THEN Undefined
  ELSE [errors |-> 0, path |-> args.path, external |-> TRUE]

\* The second onResolve callback of the plugin.  Its resolveCache holds what it
\* has returned for an importer and path before, which is what it would return
\* again.
OnResolveBare(args) ==
  IF ~MatchesBare(args.path) THEN Undefined
  ELSE IF args.skipResolve THEN Undefined
  ELSE IF args.importer = << >> \/ ~IsInNodeModules(args.importer) THEN Undefined
  ELSE LET resolved == Resolve([args EXCEPT !.skipResolve = TRUE])
       IN  IF resolved.errors > 0
             THEN [errors |-> 0, path |-> args.path, external |-> TRUE]
             ELSE [errors |-> 0, path |-> resolved.path,
                   external |-> resolved.external]

\* build.resolve, and the resolution of an import met while bundling: the
\* callbacks in the order they were registered, then esbuild's own.
Resolve(args) ==
  IF OnResolveNodeAddon(args) # Undefined THEN OnResolveNodeAddon(args)
  ELSE IF OnResolveBare(args) # Undefined THEN OnResolveBare(args)
  ELSE DefaultResolve(args)

ResolveImport(import) ==
  Resolve([importer |-> import.importer, path |-> import.path,
           found |-> import.found, skipResolve |-> FALSE])

\* What esbuild.build does with a module graph: it rejects when an import
\* cannot be resolved and writes one output file otherwise.
GraphOutcome(graph) ==
  IF \E i \in 1..Len(graph) : ResolveImport(graph[i]).errors > 0
    THEN "throw" ELSE "ok"

RECURSIVE BundledBytes(_)
BundledBytes(graph) ==
  IF graph = << >> THEN 0
  ELSE (IF ResolveImport(Head(graph)).external THEN 0 ELSE ModuleBytes)
       + BundledBytes(Tail(graph))

\* The output of a build: the entry's own code and every module bundled.
GraphFiles(graph, gzip) ==
  [minified |-> EntryBytes + BundledBytes(graph), gzip |-> gzip]

\* bundleEntry settles as esbuild.build does on the module graph of the entry.
BundleSettle(b, gzip) ==
  /\ b \in 1..Len(builds)
  /\ builds[b].phase = "bundling"
  /\ builds[b].esbuild
  /\ BuildSettle(b, GraphOutcome(builds[b].request.entryContent),
                 GraphFiles(builds[b].request.entryContent, gzip))

\* ---------------------------------------------------- the plugin, by event
\* The second onResolve callback as esbuild runs it, one resolution event at a
\* time.  Each build has its own plugin state (setup runs once per build):
\*   resolveCache  the Map the callback keeps,
\*   waiting       the events whose callback is at its `await build.resolve`,
\*   resolves      history: how often build.resolve was called for a pair,
\*   events        history: how many resolution events the build has raised.
MaxEvents == 3
MaxWaiting == 2
MaxDepth == 2

\* The imports a build meets more than once.
MemoImporters ==
  { <<"w1", "node_modules", "A", "index.js">>,
    <<"w1", "node_modules", "C", "index.js">>,
    <<"w1", "src", "a.js">> }

MemoPaths == { <<"B">>, <<"addon", ".", "node">> }

MemoArgs == [importer : MemoImporters, path : MemoPaths]

\* The request whose build raises these events.
MemoRequests ==
  { [id |-> "m", displayName |-> "m", entryContent |-> "import 'm';",
     versionPackageName |-> "null"] }

\* cacheKey of the callback: importer and path.
MemoKey(args) == <<args.importer, args.path>>

\* The callback never looking into its resolveCache.
OnResolveBareSyncWithoutMemo(b, args) ==
  IF ~MatchesBare(args.path) THEN [do |-> "undefined"]
  ELSE IF args.skipResolve THEN [do |-> "undefined"]
  ELSE IF args.importer = << >> \/ ~IsInNodeModules(args.importer)
    THEN [do |-> "undefined"]
  ELSE [do |-> "resolve"]

\* The callback not looking for the skip marker.
OnResolveBareSyncUnmarked(b, args) ==
  IF ~MatchesBare(args.path) THEN [do |-> "undefined"]
  ELSE IF args.importer = << >> \/ ~IsInNodeModules(args.importer)
    THEN [do |-> "undefined"]
  ELSE IF MapHas(builds[b].resolveCache, MemoKey(args))
    THEN [do |-> "return", result |-> builds[b].resolveCache[MemoKey(args)]]
  ELSE [do |-> "resolve"]

\* The callback up to its await: it returns undefined, returns what it has
\* cached, or calls build.resolve.
OnResolveBareSync(b, args) ==
  IF ~MatchesBare(args.path) THEN [do |-> "undefined"]
  ELSE IF args.skipResolve THEN [do |-> "undefined"]
  ELSE IF args.importer = << >> \/ ~IsInNodeModules(args.importer)
    THEN [do |-> "undefined"]
  ELSE IF MapHas(builds[b].resolveCache, MemoKey(args))
    THEN [do |-> "return", result |-> builds[b].resolveCache[MemoKey(args)]]
  ELSE [do |-> "resolve"]

\* The callback after its await: what it stores and returns.
OnResolveBareResult(args, resolved) ==
  IF resolved.errors > 0
    THEN [errors |-> 0, path |-> args.path, external |-> TRUE]
    ELSE [errors |-> 0, path |-> resolved.path, external |-> resolved.external]

\* What an event gets when the second callback has returned undefined for it.
WithoutBare(args) ==
  IF OnResolveNodeAddon(args) # Undefined THEN OnResolveNodeAddon(args)
  ELSE DefaultResolve(args)

\* esbuild raises a resolution event for an import of build b; found is what
\* the file system holds.  The event is answered at once, or its callback is
\* left waiting for build.resolve.
ResolveEvent(b, args, found) ==
  LET event == [importer |-> args.importer, path |-> args.path, found |-> found,
                skipResolve |-> FALSE]
      first == OnResolveNodeAddon(event)
      bare == OnResolveBareSync(b, event)
      call == [op |-> "onResolve", build |-> b, importer |-> args.importer,
               path |-> args.path, depth |-> 0,
               cached |-> IF MapHas(builds[b].resolveCache, MemoKey(args))
                            THEN builds[b].resolveCache[MemoKey(args)]
                            ELSE Undefined]
  IN  /\ lastCall = NoCall
      /\ b \in 1..Len(builds)
      /\ builds[b].phase = "bundling"
      /\ builds[b].esbuild
      /\ builds[b].events < MaxEvents
      /\ IF first # Undefined
           THEN /\ builds' = [builds EXCEPT ![b].events = @ + 1]
                /\ lastCall' = call @@ [hook |-> "node", nested |-> FALSE,
                                        ret |-> first]
         ELSE IF bare.do = "undefined"
           THEN /\ builds' = [builds EXCEPT ![b].events = @ + 1]
                /\ lastCall' = call @@ [hook |-> "none", nested |-> FALSE,
                                        ret |-> DefaultResolve(event)]
         ELSE IF bare.do = "return"
           THEN /\ builds' = [builds EXCEPT ![b].events = @ + 1]
                /\ lastCall' = call @@ [hook |-> "bare", nested |-> FALSE,
                                        ret |-> bare.result]
         ELSE /\ Len(builds[b].waiting) < MaxWaiting
              /\ builds' = [builds EXCEPT
                    ![b].events = @ + 1,
                    ![b].waiting = Append(@, [importer |-> args.importer,
                                              path |-> args.path, depth |-> 1,
                                              cached |-> call.cached]),
                    ![b].resolves =
                       MapSet(@, MemoKey(args),
                              (IF MapHas(@, MemoKey(args)) THEN @[MemoKey(args)]
                               ELSE 0) + 1)]
              /\ lastCall' = NoCall
      /\ UNCHANGED <<now, ticks, engineVars, esbuildVars, lastFailure, lastSuccess>>

\* The build.resolve call of the i-th waiting callback of build b is served:
\* it is a resolution event of its own, carrying the skip marker in its
\* pluginData, that runs through the callbacks again.  When the second
\* callback passes it on, esbuild resolves the path and the waiting callback
\* stores and returns the outcome; when the callback calls build.resolve for
\* it, the event waits one level deeper.
NestedResolve(b, i, found) ==
  /\ lastCall = NoCall
  /\ b \in 1..Len(builds)
  /\ builds[b].phase = "bundling"
  /\ i \in 1..Len(builds[b].waiting)
  /\ LET e == builds[b].waiting[i]
         marked == [importer |-> e.importer, path |-> e.path, found |-> found,
                    skipResolve |-> TRUE]
         bare == OnResolveBareSync(b, marked)
         rest == [j \in 1..(Len(builds[b].waiting) - 1) |->
                    IF j < i THEN builds[b].waiting[j] ELSE builds[b].waiting[j + 1]]
         result == OnResolveBareResult(marked,
                     IF bare.do = "return" THEN bare.result ELSE WithoutBare(marked))
     IN  IF bare.do = "resolve"
           THEN /\ e.depth < MaxDepth
                /\ builds' = [builds EXCEPT
                      ![b].waiting[i].depth = @ + 1,
                      ![b].resolves =
                         MapSet(@, MemoKey(e),
                                (IF MapHas(@, MemoKey(e)) THEN @[MemoKey(e)]
                                 ELSE 0) + 1)]
                /\ lastCall' = NoCall
           ELSE /\ builds' = [builds EXCEPT
                      ![b].waiting = rest,
                      ![b].resolveCache = MapSet(@, MemoKey(e), result)]
                /\ lastCall' = [op |-> "onResolve", build |-> b,
                                importer |-> e.importer, path |-> e.path,
                                depth |-> e.depth, cached |-> e.cached,
                                hook |-> "bare", nested |-> TRUE, ret |-> result]
  /\ UNCHANGED <<now, ticks, engineVars, esbuildVars, lastFailure, lastSuccess>>

\* esbuild.build settles once no callback is waiting.
BuildSettleResolved(b, outcome, files) ==
  /\ b \in 1..Len(builds)
  /\ builds[b].phase = "bundling"
  /\ builds[b].waiting = << >>
  /\ BuildSettle(b, outcome, files)

\* ------------------------------------------------------------ the provider
\* BundleSizeProvider (src/src/providers/BundleSizeProvider.ts) turns an import
\* statement into a BundleRequest and hands it to the engine.

\* A module specifier, by its parts: the text is an optional quote, the
\* prefix, the segments joined by "/", the suffix and the quote again.
Specifiers ==
  { [quoted |-> FALSE, prefix |-> "", parts |-> <<"lodash">>, suffix |-> ""],
    [quoted |-> TRUE, prefix |-> "", parts |-> <<"lodash">>, suffix |-> ""],
    [quoted |-> FALSE, prefix |-> "", parts |-> <<"lodash", "fp">>, suffix |-> "?raw"],
    [quoted |-> FALSE, prefix |-> "@", parts |-> <<"scope", "pkg">>, suffix |-> ""],
    [quoted |-> FALSE, prefix |-> "node:", parts |-> <<"path">>, suffix |-> ""],
    [quoted |-> FALSE, prefix |-> "./", parts |-> <<"nope">>, suffix |-> ""],
    [quoted |-> FALSE, prefix |-> "@/", parts |-> <<"src", "local">>, suffix |-> ""],
    [quoted |-> FALSE, prefix |-> "#/", parts |-> <<"x">>, suffix |-> ""],
    [quoted |-> FALSE, prefix |-> "", parts |-> << >>, suffix |-> ""] }

\* ImportKind, and "undefined" for a target without one.
Kinds == {"undefined", "import", "export"}

\* Export names in the order Array.prototype.sort gives them.
NameOrder == <<"", "a", "a,b", "b", "default">>

\* The names the imports of ImportInfos are written with.
Names == {"", "a", "b", "default"}

Rank(name) == CHOOSE i \in 1..Len(NameOrder) : NameOrder[i] = name

NamedLists == UNION {[1..n -> Names] : n \in 0..MaxNamed}

\* ImportInfo values; "undefined" stands for a resolvedPath that is not given.
ImportInfos ==
  { t \in [packageName : Specifiers, kind : Kinds, namedImports : NamedLists,
           hasDefaultImport : BOOLEAN, hasNamespaceImport : BOOLEAN,
           isSideEffectOnly : BOOLEAN, isExportAll : BOOLEAN, isLocal : BOOLEAN,
           resolvedPath : {"undefined", "/w1/src/local.ts"}] :
      t.resolvedPath # "undefined" => t.isLocal }

RECURSIVE Join(_, _)
Join(parts, sep) ==
  IF parts = << >> THEN ""
  ELSE IF Len(parts) = 1 THEN parts[1]
  ELSE parts[1] \o sep \o Join(Tail(parts), sep)

\* normalizeModuleSpecifier: quotes removed, the text cut at the first "?" or
\* "#".  The prefix "#/" starts with the "#" the text is cut at.
NormalizeModuleSpecifier(specifier) ==
  IF specifier.prefix = "#/" THEN [prefix |-> "", parts |-> << >>]
  ELSE [prefix |-> specifier.prefix, parts |-> specifier.parts]

SpecifierText(moduleSpecifier) ==
  moduleSpecifier.prefix \o Join(moduleSpecifier.parts, "/")

\* getRootPackageName giving the first segment of a scoped specifier as of any
\* other.
GetRootPackageNameFirstSegment(moduleSpecifier) ==
  IF moduleSpecifier.prefix \in {"./", "../", "/", "~/", "@/", "#/", "node:"}
    THEN "null"
  ELSE IF moduleSpecifier.prefix = "@"
    THEN (IF Len(moduleSpecifier.parts) >= 1
            THEN "@" \o moduleSpecifier.parts[1] ELSE "@")
  ELSE IF moduleSpecifier.parts = << >> THEN "" ELSE moduleSpecifier.parts[1]

\* getRootPackageName; "null" for null.
GetRootPackageName(moduleSpecifier) ==
  IF moduleSpecifier.prefix \in {"./", "../", "/", "~/", "@/", "#/", "node:"}
    THEN "null"
  ELSE IF moduleSpecifier.prefix = "@"
    THEN (IF Len(moduleSpecifier.parts) >= 2
            THEN "@" \o moduleSpecifier.parts[1] \o "/" \o moduleSpecifier.parts[2]
            ELSE "null")
  ELSE IF moduleSpecifier.parts = << >> THEN "" ELSE moduleSpecifier.parts[1]

\* [...new Set(xs)]: the first occurrence of every element, in order.
RECURSIVE Unique(_)
Unique(xs) ==
  IF xs = << >> THEN << >>
  ELSE LET front == Unique(SubSeq(xs, 1, Len(xs) - 1))
           last == xs[Len(xs)]
       IN  IF \E i \in 1..Len(front) : front[i] = last THEN front
           ELSE Append(front, last)

RECURSIVE Insert(_, _)
Insert(name, sorted) ==
  IF sorted = << >> THEN <<name>>
  ELSE IF Rank(name) <= Rank(Head(sorted)) THEN <<name>> \o sorted
  ELSE <<Head(sorted)>> \o Insert(name, Tail(sorted))

\* Array.prototype.sort on strings.
RECURSIVE Sort(_)
Sort(xs) == IF xs = << >> THEN << >> ELSE Insert(Head(xs), Sort(Tail(xs)))

IsExportName(name) == name # "" /\ name # "default"

\* The named imports of a request, left in the order they were written.
NamedImportsUnsorted(namedImports) ==
  SelectSeq(Unique(namedImports), IsExportName)

\* The named imports of a request: deduplicated, without "default", sorted.
NamedImportsOf(namedImports) ==
  Sort(SelectSeq(Unique(namedImports), IsExportName))

Bit(flag) == IF flag THEN "1" ELSE "0"

\* createEntryContent adding the default and named lines to a namespace import.
CreateEntryContentNamespaceAdds(t) ==
  LET spec == "\"" \o SpecifierText(t.moduleSpecifier) \o "\""
      ns == IF t.hasNamespaceImport
              THEN <<"import * as __bundleSizePlusNs from " \o spec \o ";",
                     "export { __bundleSizePlusNs };">>
              ELSE << >>
      default == IF t.hasDefaultImport
                   THEN <<"export { default as __bundleSizePlusDefault } from "
                          \o spec \o ";">>
                   ELSE << >>
      named == IF Len(t.namedImports) > 0
                 THEN <<"export { " \o Join(t.namedImports, ", ") \o " } from "
                        \o spec \o ";">>
                 ELSE << >>
  IN  IF t.isExportAll THEN "export * from " \o spec \o ";"
      ELSE IF t.isSideEffectOnly THEN "import " \o spec \o ";"
      ELSE Join(ns \o default \o named, "\n")

\* createEntryContent.
CreateEntryContent(t) ==
  LET spec == "\"" \o SpecifierText(t.moduleSpecifier) \o "\""
      default == IF t.hasDefaultImport
                   THEN <<"export { default as __bundleSizePlusDefault } from "
                          \o spec \o ";">>
                   ELSE << >>
      named == IF Len(t.namedImports) > 0
                 THEN <<"export { " \o Join(t.namedImports, ", ") \o " } from "
                        \o spec \o ";">>
                 ELSE << >>
  IN  IF t.isExportAll THEN "export * from " \o spec \o ";"
      ELSE IF t.isSideEffectOnly THEN "import " \o spec \o ";"
      ELSE IF t.hasNamespaceImport
        THEN Join(<<"import * as __bundleSizePlusNs from " \o spec \o ";",
                    "export { __bundleSizePlusNs };">>, "\n")
      ELSE Join(default \o named, "\n")

\* createDisplayName.
CreateDisplayName(t) ==
  LET text == SpecifierText(t.moduleSpecifier)
      ns == IF t.hasNamespaceImport THEN <<"(*)">> ELSE << >>
      default == IF t.hasDefaultImport THEN <<"(default)">> ELSE << >>
      named == IF Len(t.namedImports) > 0
                 THEN <<"{ " \o Join(t.namedImports, ", ") \o " }">> ELSE << >>
  IN  IF t.isExportAll THEN Join(<<text, "(export *)">>, " ")
      ELSE IF t.isSideEffectOnly THEN Join(<<text, "(side-effect)">>, " ")
      ELSE Join(<<text>> \o ns \o default \o named, " ")

\* createBundleRequest after its test of isLocal.
BundleRequestOf(target) ==
  LET moduleSpecifier == NormalizeModuleSpecifier(target.packageName)
      kind == IF target.kind = "undefined" THEN "import" ELSE target.kind
      namedImports == NamedImportsOf(target.namedImports)
      runtimeSpecifierCount ==
        (IF target.isExportAll THEN 1 ELSE 0) + (IF target.hasDefaultImport THEN 1 ELSE 0)
        + (IF target.hasNamespaceImport THEN 1 ELSE 0) + Len(namedImports)
      isSideEffectOnly == runtimeSpecifierCount = 0 \/ target.isSideEffectOnly
      t == [kind |-> kind, moduleSpecifier |-> moduleSpecifier,
            isExportAll |-> target.isExportAll,
            hasDefaultImport |-> target.hasDefaultImport,
            hasNamespaceImport |-> target.hasNamespaceImport,
            isSideEffectOnly |-> isSideEffectOnly, namedImports |-> namedImports]
      idParts == <<kind, SpecifierText(moduleSpecifier),
                   "all:" \o Bit(target.isExportAll),
                   "default:" \o Bit(target.hasDefaultImport),
                   "ns:" \o Bit(target.hasNamespaceImport),
                   "side:" \o Bit(isSideEffectOnly),
                   "named:" \o Join(namedImports, ",")>>
  IN  IF SpecifierText(moduleSpecifier) = "" \/ moduleSpecifier.prefix = "node:"
        THEN Null
        ELSE [id |-> Join(idParts, "|"), displayName |-> CreateDisplayName(t),
              entryContent |-> CreateEntryContent(t),
              versionPackageName |-> GetRootPackageName(moduleSpecifier)]

\* createBundleRequest making a request of a local import as of any other.
CreateBundleRequestOfLocal(target) == BundleRequestOf(target)

\* createBundleRequest: the BundleRequest of an import, or Null.
CreateBundleRequest(target) ==
  IF target.isLocal THEN Null ELSE BundleRequestOf(target)

\* The imports whose size is asked for: a package, a local file that has been
\* resolved, a local file that has not, and a built-in module.
SampleImports ==
  { t \in ImportInfos :
      /\ t.kind = "import" /\ ~t.hasDefaultImport /\ ~t.hasNamespaceImport
      /\ ~t.isSideEffectOnly /\ ~t.isExportAll
      /\ \/ /\ t.packageName.prefix = "" /\ t.packageName.parts = <<"lodash">>
            /\ ~t.packageName.quoted /\ ~t.isLocal /\ t.namedImports = <<"b", "a">>
         \/ /\ t.packageName.prefix = "@/" /\ t.isLocal
            /\ t.resolvedPath # "undefined" /\ t.namedImports = <<"a">>
         \/ /\ t.packageName.prefix = "./" /\ t.isLocal
            /\ t.resolvedPath = "undefined" /\ t.namedImports = <<"a">>
         \/ /\ t.packageName.prefix = "node:" /\ ~t.isLocal
            /\ t.namedImports = << >> }

\* getImportCacheId.
GetImportCacheId(importInfo) ==
  LET request == CreateBundleRequest(importInfo)
  IN  /\ lastCall = NoCall
      /\ lastCall' = [op |-> "getImportCacheId", target |-> importInfo,
                      request |-> request,
                      ret |-> IF request = Null THEN "null" ELSE request.id]
      /\ UNCHANGED <<now, ticks, engineVars, esbuildVars, builds, lastFailure,
                     lastSuccess>>

\* getImportSize; workspaceRoot is "" when there is none.
GetImportSize(importInfo, workspaceRoot, manifest, fs) ==
  LET request == CreateBundleRequest(importInfo)
  IN  IF workspaceRoot = "" \/ request = Null
        THEN /\ lastCall = NoCall
             /\ lastCall' = [op |-> "getImportSize", target |-> importInfo,
                             ret |-> Null]
             /\ UNCHANGED <<now, ticks, engineVars, esbuildVars, builds,
                            lastFailure, lastSuccess>>
        ELSE GetBundleSize(request, workspaceRoot, manifest, fs)

\* getCachedImportSize.
GetCachedImportSize(importInfo, workspaceRoot) ==
  LET request == CreateBundleRequest(importInfo)
  IN  IF workspaceRoot = "" \/ request = Null
        THEN /\ lastCall = NoCall
             /\ lastCall' = [op |-> "getCachedImportSize", target |-> importInfo,
                             ret |-> Null]
             /\ UNCHANGED <<now, ticks, engineVars, esbuildVars, builds,
                            lastFailure, lastSuccess>>
        ELSE GetCachedBundleSize(request.id, workspaceRoot)

\* ------------------------------------------------------------ specification
Init ==
  /\ now = StartTime
  /\ ticks = 0
  /\ cache = EmptyMap
  /\ pendingBuilds = EmptyMap
  /\ failedPackages = EmptyMap
  /\ cacheGeneration = 0
  /\ workspaceEsbuildCache = EmptyMap
  /\ globalEsbuildModule = "null"
  /\ triedGlobalEsbuild = FALSE
  /\ warnedMissingEsbuild = {}
  /\ warnings = EmptyMap
  /\ builds = << >>
  /\ lastFailure = EmptyMap
  /\ lastSuccess = EmptyMap
  /\ lastCall = NoCall

\* The engine under requests for two import signatures in one workspace.
Next ==
  \/ \E request \in Requests, workspaceRoot \in Roots,
        manifest \in Manifests \cup {"none"}, fs \in WorkspaceOrNone :
       GetBundleSize(request, workspaceRoot, manifest, fs)
  \/ \E b \in 1..MaxBuilds, outcome \in BuildOutcomes, files \in OutputFiles :
       BuildSettle(b, outcome, files)
  \/ \E b \in 1..MaxBuilds : Finally(b)
  \/ \E id \in Ids, workspaceRoot \in Roots, fs \in WorkspaceOrNone :
       GetBundleCacheState(id, workspaceRoot, fs)
  \/ ClearCache
  \/ \E d \in Deltas : Tick(d)
  \/ Return

Spec == Init /\ [][Next]_vars

\* The engine with its read-only queries, over the lifetime of a positive entry.
NextQueries ==
  \/ \E request \in Requests, workspaceRoot \in Roots,
        manifest \in {"readable", "none"}, fs \in WorkspaceOrNone :
       GetBundleSize(request, workspaceRoot, manifest, fs)
  \/ \E b \in 1..MaxBuilds, outcome \in BuildOutcomes, files \in OutputFiles :
       BuildSettle(b, outcome, files)
  \/ \E b \in 1..MaxBuilds : Finally(b)
  \/ \E id \in Ids, workspaceRoot \in Roots, fs \in WorkspaceOrNone :
       GetBundleCacheState(id, workspaceRoot, fs)
  \/ \E id \in Ids, workspaceRoot \in Roots : GetCachedBundleSize(id, workspaceRoot)
  \/ \E workspaceRoot \in Roots, fs \in WorkspaceOrNone :
       IsBundlingAvailable(workspaceRoot, fs)
  \/ ClearCache
  \/ \E d \in CacheDeltas : Tick(d)
  \/ Return

SpecQueries == Init /\ [][NextQueries]_vars

\* The engine bundling entries whose imports the plugin resolves.
NextResolve ==
  \/ /\ lastCall = NoCall
     /\ \E request \in ResolveRequests, workspaceRoot \in Roots :
          GetBundleSize(request, workspaceRoot, "none",
                        [workspace |-> TRUE, vite |-> "none", global |-> FALSE])
  \/ \E b \in 1..MaxBuilds, gzip \in GzipSizes : BundleSettle(b, gzip)
  \/ \E b \in 1..MaxBuilds : Finally(b)
  \/ ClearCache
  \/ Return

SpecResolve == Init /\ [][NextResolve]_vars

\* The cache ids of all imports.
NextRequests ==
  \/ /\ lastCall = NoCall
     /\ \E importInfo \in ImportInfos : GetImportCacheId(importInfo)
  \/ Return

SpecRequests == Init /\ [][NextRequests]_vars

\* The provider in front of the engine.
NextProvider ==
  \/ \E importInfo \in SampleImports : GetImportCacheId(importInfo)
  \/ \E importInfo \in SampleImports, workspaceRoot \in Roots \cup {""},
        manifest \in {"readable", "none"}, fs \in WorkspaceOrNone :
       GetImportSize(importInfo, workspaceRoot, manifest, fs)
  \/ \E importInfo \in SampleImports, workspaceRoot \in Roots \cup {""} :
       GetCachedImportSize(importInfo, workspaceRoot)
  \/ \E b \in 1..MaxBuilds, outcome \in BuildOutcomes, files \in OutputFiles :
       BuildSettle(b, outcome, files)
  \/ \E b \in 1..MaxBuilds : Finally(b)
  \/ Return

SpecProvider == Init /\ [][NextProvider]_vars

\* The workspace roots esbuild is looked for from.
DiscoveryRoots == {"/w1", "/w2"}

\* The search for esbuild from two workspace roots, on every file system.
NextDiscovery ==
  \/ \E workspaceRoot \in DiscoveryRoots, fs \in FileSystems :
       IsBundlingAvailable(workspaceRoot, fs)
  \/ ClearCache
  \/ Return

SpecDiscovery == Init /\ [][NextDiscovery]_vars

\* The requests whose version is looked up, or not: a package name, null and
\* the empty string.
VersionRequests ==
  { [id |-> "a", displayName |-> "a", entryContent |-> "export * from 'a';",
     versionPackageName |-> "a"],
    [id |-> "b", displayName |-> "b", entryContent |-> "import './b';",
     versionPackageName |-> "null"],
    [id |-> "c", displayName |-> "c", entryContent |-> "import 'c';",
     versionPackageName |-> ""] }

\* The engine measuring packages whose manifest is in any state.
NextVersions ==
  \/ \E request \in VersionRequests, workspaceRoot \in Roots,
        manifest \in ManifestStates \cup {"none"}, fs \in WorkspaceOrNone :
       GetBundleSize(request, workspaceRoot, manifest, fs)
  \/ \E b \in 1..MaxBuilds, outcome \in BuildOutcomes, files \in OutputFiles :
       BuildSettle(b, outcome, files)
  \/ \E b \in 1..MaxBuilds : Finally(b)
  \/ ClearCache
  \/ Return

SpecVersions == Init /\ [][NextVersions]_vars

\* The engine without the clock.  The continuation of getBundleSize after
\* `await buildPromise` is a microtask queued when the build settles: it runs
\* before any task that is started later, however many calls are made
\* (strong fairness); a call returns to its caller (weak fairness).
NextSettling ==
  \/ \E request \in Requests, workspaceRoot \in Roots,
        manifest \in {"readable", "none"}, fs \in WorkspaceOrNone :
       GetBundleSize(request, workspaceRoot, manifest, fs)
  \/ \E b \in 1..MaxBuilds, outcome \in BuildOutcomes, files \in OutputFiles :
       BuildSettle(b, outcome, files)
  \/ \E b \in 1..MaxBuilds : Finally(b)
  \/ \E id \in Ids, workspaceRoot \in Roots, fs \in WorkspaceOrNone :
       GetBundleCacheState(id, workspaceRoot, fs)
  \/ ClearCache
  \/ Return

SpecSettling ==
  /\ Init /\ [][NextSettling]_vars
  /\ \A b \in 1..MaxBuilds : SF_vars(Finally(b))
  /\ WF_vars(Return)

\* formatSize on its own.
NextFormat ==
  \/ /\ lastCall = NoCall
     /\ \E bytes \in ByteCounts : FormatSize(bytes)
  \/ Return

SpecFormat == Init /\ [][NextFormat]_vars

\* The engine and its queries with the clock moving by either TTL, or a
\* millisecond less.
NextFreshness ==
  \/ \E request \in Requests, workspaceRoot \in Roots,
        manifest \in {"readable", "none"}, fs \in WorkspaceOrNone :
       GetBundleSize(request, workspaceRoot, manifest, fs)
  \/ \E b \in 1..MaxBuilds, outcome \in BuildOutcomes, files \in OutputFiles :
       BuildSettle(b, outcome, files)
  \/ \E b \in 1..MaxBuilds : Finally(b)
  \/ \E id \in Ids, workspaceRoot \in Roots, fs \in WorkspaceOrNone :
       GetBundleCacheState(id, workspaceRoot, fs)
  \/ \E id \in Ids, workspaceRoot \in Roots : GetCachedBundleSize(id, workspaceRoot)
  \/ \E d \in Deltas \cup CacheDeltas : Tick(d)
  \/ Return

SpecFreshness == Init /\ [][NextFreshness]_vars

\* The roots the engine is asked about when esbuild may be missing: a workspace
\* root, and the empty string (getEsbuild then looks in the global paths only).
WarningRoots == {"/w1", ""}

\* The file systems without a Vite.
PlainFileSystems == {fs \in FileSystems : fs.vite = "none"}

\* Every call that looks for esbuild, on file systems that change between calls.
NextWarnings ==
  \/ \E request \in {q \in Requests : q.id = "b"}, workspaceRoot \in WarningRoots,
        fs \in PlainFileSystems :
       GetBundleSize(request, workspaceRoot, "none", fs)
  \/ \E b \in 1..MaxBuilds, outcome \in BuildOutcomes, files \in OutputFiles :
       BuildSettle(b, outcome, files)
  \/ \E b \in 1..MaxBuilds : Finally(b)
  \/ \E workspaceRoot \in WarningRoots, fs \in PlainFileSystems :
       GetBundleCacheState("b", workspaceRoot, fs)
  \/ \E workspaceRoot \in WarningRoots, fs \in PlainFileSystems :
       IsBundlingAvailable(workspaceRoot, fs)
  \/ ClearCache
  \/ Return

SpecWarnings == Init /\ [][NextWarnings]_vars

\* Specifiers of every shape getRootPackageName tells apart: the prefixes it
\* tests for, scoped names with and without a name after the scope, subpaths.
NameSpecifiers ==
  Specifiers \cup
  { [quoted |-> FALSE, prefix |-> "@", parts |-> <<"scope", "pkg", "sub">>, suffix |-> ""],
    [quoted |-> TRUE, prefix |-> "@", parts |-> <<"scope", "pkg">>, suffix |-> "?raw"],
    [quoted |-> FALSE, prefix |-> "@", parts |-> <<"scope">>, suffix |-> ""],
    [quoted |-> FALSE, prefix |-> "@", parts |-> <<"scope", "">>, suffix |-> ""],
    [quoted |-> FALSE, prefix |-> "@", parts |-> << >>, suffix |-> ""],
    [quoted |-> FALSE, prefix |-> "../", parts |-> <<"up">>, suffix |-> ""],
    [quoted |-> FALSE, prefix |-> "/", parts |-> <<"abs", "file">>, suffix |-> ""],
    [quoted |-> FALSE, prefix |-> "~/", parts |-> <<"home">>, suffix |-> ""],
    [quoted |-> FALSE, prefix |-> "", parts |-> <<"..">>, suffix |-> ""],
    [quoted |-> FALSE, prefix |-> "", parts |-> <<"lodash", "fp", "map">>, suffix |-> "#x"] }

\* The imports of these specifiers, flagged local or not by the caller.
NameImports ==
  { t \in [packageName : NameSpecifiers, kind : Kinds, namedImports : {<<"a">>},
           hasDefaultImport : BOOLEAN, hasNamespaceImport : {FALSE},
           isSideEffectOnly : {FALSE}, isExportAll : {FALSE}, isLocal : BOOLEAN,
           resolvedPath : {"undefined"}] : TRUE }

\* The requests made of them.
NextNames ==
  \/ /\ lastCall = NoCall
     /\ \E importInfo \in NameImports : GetImportCacheId(importInfo)
  \/ Return

SpecNames == Init /\ [][NextNames]_vars

\* Specifiers and export names that hold the separators of the id: a name may
\* be any string (import { "a,b" as x } from "m").
SeparatorSpecifiers ==
  { [quoted |-> FALSE, prefix |-> "", parts |-> <<"m">>, suffix |-> ""],
    [quoted |-> FALSE, prefix |-> "", parts |-> <<"m|named:a,b">>, suffix |-> ""],
    [quoted |-> FALSE, prefix |-> "",
     parts |-> <<"m|all:0|default:0|ns:0|side:0|named:a">>, suffix |-> ""] }

SeparatorNames == {"a", "b", "a,b"}

SeparatorImports ==
  { t \in [packageName : SeparatorSpecifiers, kind : {"import", "export"},
           namedImports : UNION {[1..n -> SeparatorNames] : n \in 0..2},
           hasDefaultImport : BOOLEAN, hasNamespaceImport : BOOLEAN,
           isSideEffectOnly : BOOLEAN, isExportAll : {FALSE}, isLocal : {FALSE},
           resolvedPath : {"undefined"}] : TRUE }

\* The cache ids of these imports.
NextIds ==
  \/ /\ lastCall = NoCall
     /\ \E importInfo \in SeparatorImports : GetImportCacheId(importInfo)
  \/ Return

SpecIds == Init /\ [][NextIds]_vars

\* Builds whose imports are resolved event by event, on a file system that
\* changes between events.
NextMemo ==
  \/ \E request \in MemoRequests, workspaceRoot \in Roots :
       GetBundleSize(request, workspaceRoot, "none",
                     [workspace |-> TRUE, vite |-> "none", global |-> FALSE])
  \/ \E b \in 1..MaxBuilds, args \in MemoArgs, found \in BOOLEAN :
       ResolveEvent(b, args, found)
  \/ \E b \in 1..MaxBuilds, i \in 1..MaxWaiting, found \in BOOLEAN :
       NestedResolve(b, i, found)
  \/ \E b \in 1..MaxBuilds, outcome \in {"ok", "throw"}, files \in OutputFiles :
       BuildSettleResolved(b, outcome, files)
  \/ \E b \in 1..MaxBuilds : Finally(b)
  \/ ClearCache
  \/ Return

SpecMemo == Init /\ [][NextMemo]_vars

\* The same without clearCache.  esbuild serves every build.resolve call it is
\* given, whatever else the build is doing (strong fairness); a call returns
\* to its caller (weak fairness).
NextEvents ==
  \/ \E request \in MemoRequests, workspaceRoot \in Roots :
       GetBundleSize(request, workspaceRoot, "none",
                     [workspace |-> TRUE, vite |-> "none", global |-> FALSE])
  \/ \E b \in 1..MaxBuilds, args \in MemoArgs, found \in BOOLEAN :
       ResolveEvent(b, args, found)
  \/ \E b \in 1..MaxBuilds, i \in 1..MaxWaiting, found \in BOOLEAN :
       NestedResolve(b, i, found)
  \/ \E b \in 1..MaxBuilds, outcome \in {"ok", "throw"}, files \in OutputFiles :
       BuildSettleResolved(b, outcome, files)
  \/ \E b \in 1..MaxBuilds : Finally(b)
  \/ Return

SpecEvents ==
  /\ Init /\ [][NextEvents]_vars
  /\ \A b \in 1..MaxBuilds :
       SF_vars(\E i \in 1..MaxWaiting, found \in BOOLEAN : NestedResolve(b, i, found))
  /\ WF_vars(Return)

\* The engine with the clock moving by either TTL, or a millisecond less, and
\* clearCache.
NextBothCaches ==
  \/ \E request \in Requests, workspaceRoot \in Roots,
        manifest \in {"readable", "none"}, fs \in WorkspaceOrNone :
       GetBundleSize(request, workspaceRoot, manifest, fs)
  \/ \E b \in 1..MaxBuilds, outcome \in BuildOutcomes, files \in OutputFiles :
       BuildSettle(b, outcome, files)
  \/ \E b \in 1..MaxBuilds : Finally(b)
  \/ ClearCache
  \/ \E d \in Deltas \cup CacheDeltas : Tick(d)
  \/ Return

SpecBothCaches == Init /\ [][NextBothCaches]_vars

\* ------------------------------------------------------------------ claims
BuildIds == 1..Len(builds)

\* The builds of a key that have not settled and have seen no clearCache.
InFlight(cacheKey) ==
  {b \in BuildIds : /\ builds[b].phase = "bundling"
                    /\ builds[b].cacheKey = cacheKey
                    /\ ~builds[b].cleared}

\* The builds of a key that have not settled and have seen a clearCache.
StaleInFlight(cacheKey) ==
  {b \in BuildIds : /\ builds[b].phase = "bundling"
                    /\ builds[b].cacheKey = cacheKey
                    /\ builds[b].cleared}

IsCall(op) == lastCall.op = op

\* C1: while a build of a key is in flight (not settled, no clearCache since it
\* started) and the key has no fresh positive or negative entry, a getBundleSize
\* call for the key starts no second build and gets the promise of the build in
\* flight: one bundle invocation, one result for all callers.
C1_Dedup ==
  \A cacheKey \in KeySet :
    /\ Cardinality(InFlight(cacheKey)) <= 1
    /\ ( /\ IsCall("getBundleSize")
         /\ lastCall.key = cacheKey
         /\ ~CacheFresh(cacheKey)
         /\ ~FailedFresh(cacheKey)
         /\ InFlight(cacheKey) # {} )
       => lastCall.promise \in InFlight(cacheKey)

\* A second caller has joined a build that is still in flight.
C1_Witness ==
  /\ IsCall("getBundleSize")
  /\ lastCall.path = "joined"
  /\ builds[lastCall.promise].phase = "bundling"
  /\ builds[lastCall.promise].waiters >= 2
  /\ lastCall.len = Len(builds)

\* C2: the step in which a build settles that was in flight during a clearCache
\* writes neither the positive nor the negative cache, whatever its result.
C2_GenerationDiscard ==
  [][\A b \in BuildIds :
       ( /\ builds[b].phase = "bundling"
         /\ builds[b].cleared
         /\ builds'[b].phase = "settled" )
       => /\ cache' = cache
          /\ failedPackages' = failedPackages]_vars

\* Two builds that were in flight during a clearCache have settled, one with a
\* result and one with null, and no entry comes from either.
C2_Witness ==
  \E b1, b2 \in BuildIds :
    /\ builds[b1].phase = "settled" /\ builds[b1].cleared
    /\ builds[b1].value # Null
    /\ builds[b2].phase = "settled" /\ builds[b2].cleared
    /\ builds[b2].value = Null
    /\ cache = EmptyMap
    /\ failedPackages = EmptyMap

\* C3: with a build of a key in flight that has seen a clearCache, and no fresh
\* entry for the key, a getBundleSize call for the key never gets the old
\* promise: it gets a build started under the current generation, which the
\* first such call starts.
C3_FreshBuildAfterClear ==
  ( /\ IsCall("getBundleSize")
    /\ StaleInFlight(lastCall.key) # {}
    /\ ~CacheFresh(lastCall.key)
    /\ ~FailedFresh(lastCall.key) )
  => /\ lastCall.promise \in BuildIds \ StaleInFlight(lastCall.key)
     /\ builds[lastCall.promise].generation = cacheGeneration
     /\ lastCall.pending = NoPending => /\ lastCall.path = "started"
                                        /\ Len(builds) = lastCall.len + 1

\* The first call after the clearCache has started a second build of the key.
C3_Witness ==
  /\ IsCall("getBundleSize")
  /\ lastCall.path = "started"
  /\ StaleInFlight(lastCall.key) # {}
  /\ builds[lastCall.promise].generation = cacheGeneration
  /\ cacheGeneration > 0

\* C4: every entry of the positive cache and of the negative cache was written
\* by a build started under the current generation.
C4_EntriesOfCurrentGeneration ==
  /\ \A cacheKey \in DOMAIN cache :
       /\ cache[cacheKey].data.ref \in BuildIds
       /\ builds[cache[cacheKey].data.ref].generation = cacheGeneration
  /\ \A cacheKey \in DOMAIN failedPackages :
       /\ MapHas(lastFailure, cacheKey)
       /\ lastFailure[cacheKey].generation = cacheGeneration
       /\ lastFailure[cacheKey].timestamp = failedPackages[cacheKey]

\* A build of the old generation has settled after the clearCache, next to an
\* entry written under the new generation.
C4_Witness ==
  /\ cacheGeneration > 0
  /\ \E b \in BuildIds :
       builds[b].phase \in {"settled", "done"} /\ builds[b].cleared
  /\ DOMAIN cache \cup DOMAIN failedPackages # {}

\* The negative entry a settled build has written, if its generation is still
\* the current one.
FailureRecorded(b) ==
  builds[b].generation = cacheGeneration
    => /\ MapHas(failedPackages, builds[b].cacheKey)
       /\ MapHas(lastFailure, builds[b].cacheKey)
       /\ lastFailure[builds[b].cacheKey].generation = builds[b].generation
       /\ lastFailure[builds[b].cacheKey].timestamp =
            failedPackages[builds[b].cacheKey]

\* C5 as stated: the promise of a build is never rejected, and an exception in
\* the version lookup or in bundling, or a build without output files, gives
\* null and a negative entry.
C5_AnyExceptionGivesNull ==
  \A b \in BuildIds :
    builds[b].phase = "settled" =>
      /\ ~builds[b].rejected
      /\ ( \/ builds[b].manifest = "throws"
           \/ builds[b].outcome \in {"throw", "empty"} )
         => /\ builds[b].value = Null
            /\ FailureRecorded(b)

\* C5 amended: the promise of a build is never rejected; an exception in
\* bundling or a build without output files gives null and a negative entry;
\* an exception in the version lookup gives the version "unknown" and leaves
\* the result of the bundling as it is.
C5_BundlingFailureGivesNull ==
  \A b \in BuildIds :
    builds[b].phase = "settled" =>
      /\ ~builds[b].rejected
      /\ builds[b].outcome \in {"throw", "empty"}
           => /\ builds[b].value = Null
              /\ FailureRecorded(b)
      /\ (builds[b].outcome = "ok" /\ builds[b].manifest = "throws")
           => /\ builds[b].value # Null
              /\ builds[b].value.version = "unknown"

\* A build with a deduped caller has settled null after esbuild threw, next to a
\* build that has settled with a result after the version lookup threw.
C5_Witness ==
  \E b1, b2 \in BuildIds :
    /\ builds[b1].phase = "settled" /\ builds[b1].outcome = "throw"
    /\ builds[b1].waiters >= 2 /\ builds[b1].value = Null
    /\ MapHas(failedPackages, builds[b1].cacheKey)
    /\ builds[b2].phase = "settled" /\ builds[b2].outcome = "ok"
    /\ builds[b2].manifest = "throws" /\ builds[b2].value # Null

\* Whether a measurement of the key failed under the current generation, and
\* how long ago.
FailedUnderCurrent(cacheKey) ==
  MapHas(lastFailure, cacheKey) /\ lastFailure[cacheKey].generation = cacheGeneration

FailureAge(cacheKey) == now - lastFailure[cacheKey].timestamp

\* C6: after a failure under the current generation, a getBundleSize call for
\* the key within the negative TTL returns null and starts no build; the first
\* call once the TTL has elapsed starts a build.
C6_NegativeTTL ==
  (IsCall("getBundleSize") /\ FailedUnderCurrent(lastCall.key)) =>
    /\ FailureAge(lastCall.key) < failedCacheDuration
         => /\ lastCall.path = "failed"
            /\ lastCall.ret = Null
            /\ Len(builds) = lastCall.len
    /\ ( /\ FailureAge(lastCall.key) >= failedCacheDuration
         /\ lastCall.pending = NoPending
         /\ ~CacheFresh(lastCall.key) )
         => /\ lastCall.path = "started"
            /\ Len(builds) = lastCall.len + 1
            /\ builds[lastCall.promise].phase = "bundling"

\* A call at an age of exactly the negative TTL has started a build.
C6_Witness ==
  /\ IsCall("getBundleSize")
  /\ FailedUnderCurrent(lastCall.key)
  /\ FailureAge(lastCall.key) = failedCacheDuration
  /\ lastCall.path = "started"

\* C7: after a clearCache, the first getBundleSize call for a key that failed
\* under an older generation starts a build, also within the negative TTL of
\* that failure.
C7_RetryAfterClear ==
  ( /\ IsCall("getBundleSize")
    /\ MapHas(lastFailure, lastCall.key)
    /\ lastFailure[lastCall.key].generation < cacheGeneration
    /\ FailureAge(lastCall.key) < failedCacheDuration
    /\ lastCall.pending = NoPending
    /\ ~MapHas(cache, lastCall.key) )
  => /\ lastCall.path = "started"
     /\ Len(builds) = lastCall.len + 1
     /\ builds[lastCall.promise].generation = cacheGeneration

\* A key that failed no longer ago than the negative TTL is being built again
\* after a clearCache.
C7_Witness ==
  /\ IsCall("getBundleSize")
  /\ MapHas(lastFailure, lastCall.key)
  /\ lastFailure[lastCall.key].generation < cacheGeneration
  /\ FailureAge(lastCall.key) < failedCacheDuration
  /\ lastCall.path = "started"

\* C8: getBundleSize looks for a fresh positive entry, then a fresh negative
\* entry, then a pending build of the current generation, then starts a build.
\* With a fresh positive entry it returns the cached data and starts no build;
\* with a fresh negative entry it returns null, starts no build and does not
\* take the promise of a pending build.
C8_LookupOrder ==
  IsCall("getBundleSize") =>
    LET cacheKey == lastCall.key
        positive == /\ MapHas(cache, cacheKey)
                    /\ now - cache[cacheKey].timestamp < cacheDuration
        negative == /\ MapHas(failedPackages, cacheKey)
                    /\ now - failedPackages[cacheKey] < failedCacheDuration
        pending == lastCall.pending.generation = cacheGeneration
    IN  /\ positive => /\ lastCall.path = "cached"
                       /\ lastCall.ret = cache[cacheKey].data
                       /\ Len(builds) = lastCall.len
        /\ (~positive /\ negative) => /\ lastCall.path = "failed"
                                      /\ lastCall.ret = Null
                                      /\ lastCall.promise = 0
                                      /\ Len(builds) = lastCall.len
        /\ (~positive /\ ~negative /\ pending)
             => /\ lastCall.path = "joined"
                /\ lastCall.promise = lastCall.pending.promise
                /\ Len(builds) = lastCall.len
        /\ (~positive /\ ~negative /\ ~pending)
             => /\ lastCall.path = "started"
                /\ Len(builds) = lastCall.len + 1

\* A call has returned null for a fresh negative entry while a build of the
\* current generation was pending for the key.
C8_Witness ==
  /\ IsCall("getBundleSize")
  /\ lastCall.path = "failed"
  /\ lastCall.pending.generation = cacheGeneration

\* C9 as stated: getBundleCacheState reports "cached", "failed" and "pending"
\* exactly when getBundleSize would return cached data, return null without
\* work, and join the build in flight.
C9_SamePrecedence ==
  IsCall("getBundleCacheState") =>
    LET path == GetBundleSizePath(lastCall.key, cacheGeneration)
    IN  /\ (lastCall.ret = "cached") <=> (path = "cached")
        /\ (lastCall.ret = "failed") <=> (path = "failed")
        /\ (lastCall.ret = "pending") <=> (path = "joined")

\* C10 as stated: a getBundleCacheState call changes nothing: not the caches,
\* the pending map, the generation, the builds, the esbuild handles or the set
\* of warnings given.
C10_NonMutating ==
  [][lastCall'.op = "getBundleCacheState"
       => UNCHANGED <<cache, failedPackages, pendingBuilds, cacheGeneration, builds,
                      workspaceEsbuildCache, globalEsbuildModule,
                      triedGlobalEsbuild, warnedMissingEsbuild>>]_vars

\* C10 amended: a getBundleCacheState call changes neither the caches, the
\* pending map, the generation nor the builds (it may look for esbuild, which
\* memoizes the handle and may give the warning).
C10_EngineUnchanged ==
  [][lastCall'.op = "getBundleCacheState"
       => UNCHANGED <<cache, failedPackages, pendingBuilds, cacheGeneration,
                      builds>>]_vars

\* A getBundleCacheState call has looked for esbuild, found none and warned.
C10_Witness ==
  /\ IsCall("getBundleCacheState")
  /\ lastCall.ret = "unavailable"
  /\ warnedMissingEsbuild # {}
  /\ workspaceEsbuildCache # EmptyMap

\* A build is marked by this step as having seen a clearCache.
MarksCleared ==
  \E b \in BuildIds : builds'[b].cleared /\ ~builds[b].cleared

\* C11: a step that is a clearCache adds exactly 1 to the generation, and a step
\* that changes the generation leaves, in that one step, the positive, negative
\* and pending maps empty, no esbuild handle memoized and no warning recorded;
\* every other step leaves the generation as it is.
C11_ClearCacheAtomic ==
  [][ /\ MarksCleared => cacheGeneration' = cacheGeneration + 1
      /\ cacheGeneration' # cacheGeneration
           => /\ cacheGeneration' = cacheGeneration + 1
              /\ cache' = EmptyMap
              /\ failedPackages' = EmptyMap
              /\ pendingBuilds' = EmptyMap
              /\ workspaceEsbuildCache' = EmptyMap
              /\ globalEsbuildModule' = "null"
              /\ triedGlobalEsbuild' = FALSE
              /\ warnedMissingEsbuild' = {} ]_vars

\* A clearCache has just emptied a negative entry, dropped a pending build and
\* forgotten the esbuild handles.
C11_Witness ==
  /\ cacheGeneration = 1
  /\ \E b \in BuildIds : builds[b].cleared /\ builds[b].phase = "bundling"
  /\ \E k \in KeySet : /\ MapHas(lastFailure, k)
                       /\ lastFailure[k].generation = 0
                       /\ ~MapHas(failedPackages, k)
  /\ pendingBuilds = EmptyMap
  /\ workspaceEsbuildCache = EmptyMap
  /\ ~triedGlobalEsbuild

\* Whether the last build committed for the key resolved to a result under the
\* current generation.
SucceededUnderCurrent(cacheKey) ==
  MapHas(lastSuccess, cacheKey) /\ lastSuccess[cacheKey].generation = cacheGeneration

SuccessAge(cacheKey) == now - lastSuccess[cacheKey].timestamp

\* C12: after a build has resolved to a result R with no clearCache while it
\* ran, and until the positive TTL has elapsed or clearCache is called,
\* getCachedBundleSize returns R, getBundleCacheState returns "cached" and
\* getBundleSize returns R and starts no build.
C12_RoundTrip ==
  ( /\ lastCall # NoCall
    /\ lastCall.op \in {"getBundleSize", "getCachedBundleSize", "getBundleCacheState"}
    /\ SucceededUnderCurrent(lastCall.key)
    /\ SuccessAge(lastCall.key) < cacheDuration )
  => LET R == lastSuccess[lastCall.key].data
     IN  /\ lastCall.op = "getCachedBundleSize" => lastCall.ret = R
         /\ lastCall.op = "getBundleCacheState" => lastCall.ret = "cached"
         /\ lastCall.op = "getBundleSize"
              => /\ lastCall.ret = R
                 /\ lastCall.path = "cached"
                 /\ Len(builds) = lastCall.len

\* getBundleSize has returned the result of an earlier build a millisecond
\* before the positive TTL ends.
C12_Witness ==
  /\ IsCall("getBundleSize")
  /\ SucceededUnderCurrent(lastCall.key)
  /\ SuccessAge(lastCall.key) = cacheDuration - 1
  /\ lastCall.ret = lastSuccess[lastCall.key].data
  /\ lastCall.ret # Null

\* The import of the last call with another list of named imports.
WithNamed(xs) == [lastCall.target EXCEPT !.namedImports = xs]

Elements(xs) == {xs[i] : i \in 1..Len(xs)}

\* C13: two imports that differ only in the order of their named imports, in
\* repeated names or in a "default" entry have the same cache id and the same
\* entry content.
C13_CacheKeyStability ==
  (lastCall # NoCall /\ lastCall.op = "getImportCacheId" /\ lastCall.request # Null) =>
    \A xs \in NamedLists :
      Elements(xs) \ {"default"} = Elements(lastCall.target.namedImports) \ {"default"}
        => /\ CreateBundleRequest(WithNamed(xs)) # Null
           /\ CreateBundleRequest(WithNamed(xs)).id = lastCall.ret
           /\ CreateBundleRequest(WithNamed(xs)).entryContent
                = lastCall.request.entryContent

\* A cache id has been made of named imports written out of order, with a
\* repeated name and a "default" entry.
C13_Witness ==
  /\ lastCall # NoCall /\ lastCall.op = "getImportCacheId"
  /\ lastCall.request # Null
  /\ lastCall.target.namedImports = <<"b", "default", "b">>
  /\ CreateBundleRequest(WithNamed(<<"b">>)).id = lastCall.ret

\* A local import that has not been resolved, and one that has.
LocalUnresolved(t) == t.isLocal /\ t.resolvedPath = "undefined"

LocalResolved(t) == t.isLocal /\ t.resolvedPath # "undefined"

IsProviderCall == lastCall # NoCall /\ "target" \in DOMAIN lastCall

\* The cache keys local imports that have not been resolved would have.
UnresolvedKeys ==
  { CacheKey(r, BundleRequestOf(t).id) :
      r \in Roots, t \in {u \in SampleImports : LocalUnresolved(u)} }

\* C14: for a local import without a resolvedPath getImportCacheId returns null
\* and getImportSize and getCachedImportSize return null; no build is ever
\* started for it and no positive, negative or pending entry made.
C14_UnresolvedLocalRejected ==
  /\ (IsProviderCall /\ LocalUnresolved(lastCall.target)) =>
       /\ lastCall.op = "getImportCacheId" => lastCall.ret = "null"
       /\ lastCall.op \in {"getImportSize", "getCachedImportSize"}
            => lastCall.ret = Null
  /\ \A k \in UnresolvedKeys :
       /\ ~MapHas(cache, k) /\ ~MapHas(failedPackages, k) /\ ~MapHas(pendingBuilds, k)
       /\ \A b \in BuildIds : builds[b].phase = "done" \/ builds[b].cacheKey # k
       /\ IsCall("getBundleSize") => lastCall.key # k

\* getImportSize has returned null for a local import without a resolvedPath
\* while the engine holds a build of another import.
C14_Witness ==
  /\ IsProviderCall /\ lastCall.op = "getImportSize"
  /\ LocalUnresolved(lastCall.target)
  /\ lastCall.ret = Null
  /\ pendingBuilds # EmptyMap

\* C15 as stated: for a local import with a resolvedPath getImportCacheId
\* returns a cache id, and getImportSize does not return null at once but has
\* the import bundled.
C15_ResolvedLocalAccepted ==
  (IsProviderCall /\ LocalResolved(lastCall.target)) =>
    /\ lastCall.op = "getImportCacheId" => lastCall.ret # "null"
    /\ lastCall.op = "getImportSize" => lastCall.ret # Null

\* The builds that have settled on the module graph of their entry.
SettledGraphs ==
  {b \in BuildIds : builds[b].phase = "settled" /\ builds[b].outcome \in {"ok", "throw"}}

GraphOf(b) == builds[b].request.entryContent

ImportsOf(b) == {GraphOf(b)[i] : i \in 1..Len(GraphOf(b))}

\* esbuild finds neither a file nor an entry of the external list for the import.
CannotBeResolved(import) == ~import.found /\ ~IsExternal(import.path)

\* A package in node_modules imports a bare specifier that cannot be resolved.
OptionalMissing(import) ==
  /\ IsInNodeModules(import.importer)
  /\ MatchesBare(import.path)
  /\ CannotBeResolved(import)

\* No negative entry stands for the key of a build of the current generation.
NoFailureRecorded(b) ==
  builds[b].generation = cacheGeneration
    => ~MapHas(failedPackages, builds[b].cacheKey)

\* C16: a build whose graph has a bare import from inside node_modules that
\* cannot be resolved, and otherwise only imports that are found, settles with
\* a result, and no negative entry is recorded.
C16_OptionalDependencyTolerated ==
  \A b \in SettledGraphs :
    ( /\ \E import \in ImportsOf(b) : OptionalMissing(import)
      /\ \A import \in ImportsOf(b) : OptionalMissing(import) \/ import.found )
    => /\ builds[b].outcome = "ok"
       /\ builds[b].value # Null
       /\ NoFailureRecorded(b)

\* A build has settled with a result although a package in node_modules
\* imports a package that is not there.
C16_Witness ==
  \E b \in SettledGraphs :
    /\ \E import \in ImportsOf(b) :
         OptionalMissing(import) /\ ~MatchesNodeAddon(import.path)
    /\ builds[b].value # Null
    /\ MapHas(cache, builds[b].cacheKey)

\* Workspace source (the entry included) imports a bare specifier that cannot
\* be resolved.
WorkspaceMissing(import) ==
  /\ ~IsInNodeModules(import.importer)
  /\ MatchesBare(import.path)
  /\ CannotBeResolved(import)

\* C17 as stated: a build whose graph has a bare import from workspace source
\* that cannot be resolved settles null, and the failure is recorded.
C17_WorkspaceImportNeverExternal ==
  \A b \in SettledGraphs :
    (\E import \in ImportsOf(b) : WorkspaceMissing(import))
    => /\ builds[b].value = Null
       /\ ~builds[b].cleared => FailureRecorded(b)

\* C17 amended: the same for a bare specifier that does not end in ".node".
C17_WorkspaceFailurePropagates ==
  \A b \in SettledGraphs :
    (\E import \in ImportsOf(b) :
        WorkspaceMissing(import) /\ ~MatchesNodeAddon(import.path))
    => /\ builds[b].outcome = "throw"
       /\ builds[b].value = Null
       /\ ~builds[b].cleared => FailureRecorded(b)

\* A build has settled null, and left a negative entry, because the entry
\* imports a package that is not there.
C17_Witness ==
  \E b \in SettledGraphs :
    /\ \E import \in ImportsOf(b) :
         /\ WorkspaceMissing(import) /\ ~MatchesNodeAddon(import.path)
         /\ import.importer = <<"<stdin>">>
    /\ builds[b].value = Null
    /\ MapHas(failedPackages, builds[b].cacheKey)

\* A package in node_modules imports a bare specifier that the resolution from
\* its own directory finds.
NestedFound(import) ==
  /\ IsInNodeModules(import.importer)
  /\ MatchesBare(import.path)
  /\ import.found

\* The import is bundled: not external, the path found for it passed on, and
\* its bytes in the size of a build that has a result.
BundledIn(b, import) ==
  /\ ~ResolveImport(import).external
  /\ ResolveImport(import).errors = 0
  /\ ResolveImport(import).path = <<"resolved">> \o import.path
  /\ builds[b].value # Null => builds[b].value.size >= EntryBytes + ModuleBytes

\* C18 as stated: a bare import from inside node_modules that nested
\* resolution finds is not externalized, and its content is counted.
C18_NestedNeverExternal ==
  \A b \in SettledGraphs :
    \A import \in ImportsOf(b) : NestedFound(import) => BundledIn(b, import)

\* C18 amended: the same for a bare specifier that is not on the external list
\* and does not end in ".node".
C18_NestedDependencyBundled ==
  \A b \in SettledGraphs :
    \A import \in ImportsOf(b) :
      ( /\ NestedFound(import)
        /\ ~IsExternal(import.path)
        /\ ~MatchesNodeAddon(import.path) )
      => BundledIn(b, import)

\* A build has counted the bytes of a package that a package in node_modules
\* imports.
C18_Witness ==
  \E b \in SettledGraphs :
    /\ \E import \in ImportsOf(b) :
         /\ NestedFound(import) /\ ~IsExternal(import.path)
         /\ ~MatchesNodeAddon(import.path)
    /\ builds[b].value # Null
    /\ builds[b].value.size = EntryBytes + ModuleBytes

\* A node:-prefixed specifier, or a name of the built-in external list.
IsBuiltIn(path) ==
  \/ Len(path) >= 2 /\ path[1] = "node" /\ path[2] = ":"
  \/ Len(path) = 1 /\ path[1] \in ExternalNames

\* C19: a build whose graph imports built-in modules only, from the entry or
\* from a dependency, settles with a result to which they add no bytes, and no
\* negative entry is recorded.
C19_BuiltInExternal ==
  \A b \in SettledGraphs :
    (ImportsOf(b) # {} /\ \A import \in ImportsOf(b) : IsBuiltIn(import.path))
    => /\ builds[b].outcome = "ok"
       /\ builds[b].value # Null
       /\ builds[b].value.size = EntryBytes
       /\ NoFailureRecorded(b)

\* A build has a result although a dependency imports node:path, of which there
\* is no file.
C19_Witness ==
  \E b \in SettledGraphs :
    /\ \E import \in ImportsOf(b) :
         /\ import.path = <<"node", ":", "path">>
         /\ IsInNodeModules(import.importer)
         /\ ~import.found
    /\ builds[b].value # Null
    /\ builds[b].value.size = EntryBytes

\* C20: once the search for esbuild has found none for a root (and has given
\* the warning), and until clearCache, isBundlingAvailable returns false
\* whatever the file system holds by then, getBundleSize returns null or a
\* promise of a build without esbuild, and such a build settles null; a call
\* made when no search has been made since the last clearCache searches again
\* and finds what the file system holds.
C20_UnavailableUntilClear ==
  /\ (IsCall("isBundlingAvailable") /\ lastCall.warned) => lastCall.ret = FALSE
  /\ (IsCall("isBundlingAvailable") /\ lastCall.cached = "undefined")
       => lastCall.ret = \/ lastCall.fs.workspace
                         \/ lastCall.fs.vite # "none"
                         \/ lastCall.fs.global
  /\ (IsCall("getBundleSize") /\ lastCall.warned) =>
       /\ lastCall.path # "cached"
       /\ lastCall.path = "failed" => lastCall.ret = Null
       /\ lastCall.path \in {"joined", "started"}
            => ~builds[lastCall.promise].esbuild
  /\ \A b \in BuildIds :
       (builds[b].phase = "settled" /\ ~builds[b].esbuild) => builds[b].value = Null

\* After a clearCache isBundlingAvailable has found the esbuild that an
\* earlier search, under the old generation, had not found.
C20_RediscoveredAfterClear ==
  /\ IsCall("isBundlingAvailable")
  /\ lastCall.cached = "undefined"
  /\ lastCall.ret = TRUE
  /\ cacheGeneration = 1
  /\ \E b \in BuildIds : builds[b].generation = 0 /\ builds[b].phase = "bundling"
                         /\ ~builds[b].esbuild

\* isBundlingAvailable has returned false although esbuild has been installed
\* in the workspace since the search.
C20_Witness ==
  /\ IsCall("isBundlingAvailable")
  /\ lastCall.warned
  /\ lastCall.fs.workspace
  /\ lastCall.ret = FALSE

\* The root of the key has been searched for esbuild, in vain, since the last
\* clearCache.
RootWarned(cacheKey) ==
  \E workspaceRoot \in Roots, id \in Ids :
    /\ cacheKey = CacheKey(workspaceRoot, id)
    /\ workspaceRoot \in warnedMissingEsbuild

\* C21 as stated: where no esbuild can be found for a root, the build a
\* getBundleSize call starts settles null, and getBundleCacheState for a key of
\* the root reports "unavailable" (or "pending" while the call is returning),
\* never "failed".
C21_UnavailableNotFailed ==
  /\ \A b \in BuildIds :
       (builds[b].phase = "settled" /\ ~builds[b].esbuild) => builds[b].value = Null
  /\ (IsCall("getBundleCacheState") /\ RootWarned(lastCall.key))
       => lastCall.ret \in {"unavailable", "pending"}

\* What the search of the global paths gives a call: what an earlier search
\* has left, or what the file system holds.
GlobalLoadOf(call) ==
  IF call.tried THEN call.global
  ELSE IF call.fs.global THEN "global" ELSE "null"

\* C22: the first search for a root gives the esbuild of the workspace root if
\* there is one, else the esbuild reached through the workspace's Vite, and
\* what the global paths give only if both are missing; a handle found in the
\* workspace is memoized for the root and returned for it, whatever the file
\* system holds by then, in every step up to the next clearCache.
C22_ProjectPreferred ==
  [][ /\ \A workspaceRoot \in DOMAIN workspaceEsbuildCache :
           ( /\ workspaceEsbuildCache[workspaceRoot] # "null"
             /\ cacheGeneration' = cacheGeneration )
           => /\ MapHas(workspaceEsbuildCache', workspaceRoot)
              /\ workspaceEsbuildCache'[workspaceRoot]
                   = workspaceEsbuildCache[workspaceRoot]
      /\ lastCall'.op = "isBundlingAvailable" =>
           LET call == lastCall'
           IN  /\ call.cached \notin {"undefined", "null"}
                    => call.module = call.cached
               /\ call.cached = "undefined" =>
                    /\ call.fs.workspace => call.module = "workspace"
                    /\ (~call.fs.workspace /\ call.fs.vite # "none")
                         => call.module = "vite"
                    /\ (~call.fs.workspace /\ call.fs.vite = "none")
                         => call.module = GlobalLoadOf(call)
                    /\ call.module # "null"
                         => /\ MapHas(workspaceEsbuildCache', call.root)
                            /\ workspaceEsbuildCache'[call.root] =
                                 IF call.module = "global" THEN "null"
                                 ELSE call.module
               /\ call.module = "global"
                    => \/ call.cached = "null"
                       \/ /\ call.cached = "undefined"
                          /\ ~call.fs.workspace
                          /\ call.fs.vite = "none" ]_vars

\* A first search for a root has taken the esbuild reached through Vite's
\* directory although a global esbuild was installed and already memoized.
C22_Witness ==
  /\ IsCall("isBundlingAvailable")
  /\ lastCall.cached = "undefined"
  /\ ~lastCall.fs.workspace
  /\ lastCall.fs.vite = "directory"
  /\ lastCall.fs.global
  /\ lastCall.global = "global"
  /\ lastCall.module = "vite"

\* A handle found through Vite has been returned from the memo when neither
\* the workspace nor Vite gave an esbuild any more and a global one was there.
C22_MemoReturned ==
  /\ IsCall("isBundlingAvailable")
  /\ lastCall.cached = "vite"
  /\ ~lastCall.fs.workspace
  /\ lastCall.fs.vite = "none"
  /\ lastCall.fs.global
  /\ lastCall.module = "vite"

\* The version a build was to report, by the state of the manifest.
ExpectedVersion(b) ==
  IF NoPackageName(builds[b].request) THEN "local"
  ELSE IF builds[b].manifest = "readable" THEN "1.0.0"
  ELSE "unknown"

\* The builds that have settled after esbuild wrote its output.
Measured == {b \in BuildIds : builds[b].phase = "settled" /\ builds[b].outcome = "ok"}

\* C23 as stated: a measurement that succeeds never fails for its version
\* lookup; it reports "local" without a versionPackageName, the installed
\* version whenever the manifest can be read, and "unknown" when the manifest
\* is missing or cannot be read.
C23_ReadableGivesVersion ==
  \A b \in Measured :
    /\ builds[b].value # Null
    /\ NoPackageName(builds[b].request) => builds[b].value.version = "local"
    /\ builds[b].manifest \in {"readable", "noversion"}
         => builds[b].value.version \notin {"local", "unknown"}
    /\ builds[b].manifest \in {"missing", "throws"}
         => builds[b].value.version = "unknown"

\* C23 amended: the same, with the installed version reported when the manifest
\* can be read and has a version, and "unknown" also when it can be read and
\* has none; under an unchanged generation the result is cached.
C23_VersionLabel ==
  \A b \in Measured :
    /\ builds[b].value # Null
    /\ builds[b].value.version = ExpectedVersion(b)
    /\ builds[b].manifest = "readable" => builds[b].value.version = "1.0.0"
    /\ builds[b].manifest \in {"noversion", "missing", "throws"}
         => builds[b].value.version = "unknown"
    /\ builds[b].generation = cacheGeneration
         => /\ MapHas(cache, builds[b].cacheKey)
            /\ cache[builds[b].cacheKey].data = builds[b].value

\* A measurement has succeeded with the version "unknown" for a manifest that
\* has no version, next to one with the version "local".
C23_Witness ==
  \E b1, b2 \in Measured :
    /\ builds[b1].manifest = "noversion"
    /\ builds[b1].value # Null
    /\ builds[b1].value.version = "unknown"
    /\ MapHas(cache, builds[b1].cacheKey)
    /\ builds[b2].request.versionPackageName = ""
    /\ builds[b2].value # Null
    /\ builds[b2].value.version = "local"

\* One hour and five minutes, in milliseconds.
OneHour == 3600000
FiveMinutes == 300000

\* C24: a positive entry counts iff its age is below 3,600,000 ms and a
\* negative entry iff its age is below 300,000 ms, for getBundleSize,
\* getCachedBundleSize and getBundleCacheState alike; a getBundleSize call that
\* finds neither such an entry nor a pending build starts a build.
C24_StrictFreshness ==
  ( /\ lastCall # NoCall
    /\ lastCall.op \in {"getBundleSize", "getCachedBundleSize", "getBundleCacheState"} )
  => LET k == lastCall.key
         positive == MapHas(cache, k) /\ now - cache[k].timestamp < OneHour
         negative == MapHas(failedPackages, k) /\ now - failedPackages[k] < FiveMinutes
     IN  /\ lastCall.op = "getCachedBundleSize" =>
               /\ positive => lastCall.ret = cache[k].data
               /\ ~positive => lastCall.ret = Null
         /\ lastCall.op = "getBundleCacheState" =>
               /\ (lastCall.ret = "cached") <=> positive
               /\ lastCall.ret = "failed" => negative
               /\ (negative /\ ~positive /\ ~MapHas(pendingBuilds, k))
                    => lastCall.ret = "failed"
         /\ lastCall.op = "getBundleSize" =>
               /\ (lastCall.path = "cached") <=> positive
               /\ (lastCall.path = "failed") <=> (~positive /\ negative)
               /\ (~positive /\ ~negative /\ lastCall.pending = NoPending)
                    => /\ lastCall.path = "started"
                       /\ Len(builds) = lastCall.len + 1
                       /\ builds[lastCall.promise].phase = "bundling"

\* getBundleSize has started a build for a key whose positive entry is exactly
\* one hour old.
C24_Witness ==
  /\ IsCall("getBundleSize")
  /\ MapHas(cache, lastCall.key)
  /\ now - cache[lastCall.key].timestamp = OneHour
  /\ lastCall.path = "started"

\* getBundleCacheState has not reported "failed" for a key whose negative entry
\* is exactly five minutes old.
C24_NegativeAtTTL ==
  /\ IsCall("getBundleCacheState")
  /\ MapHas(failedPackages, lastCall.key)
  /\ now - failedPackages[lastCall.key] = FiveMinutes
  /\ lastCall.ret \in {"missing", "unavailable"}

\* The default of the setting bundleSizePlus.cacheDuration, in milliseconds.
CacheDurationSetting == 86400000

\* C25 as stated: a result cached under the current generation and younger
\* than the setting bundleSizePlus.cacheDuration (24 hours by default) is
\* returned by getBundleSize from the cache, and no build is started.
C25_ConfiguredLifetime ==
  ( /\ IsCall("getBundleSize")
    /\ SucceededUnderCurrent(lastCall.key)
    /\ SuccessAge(lastCall.key) < CacheDurationSetting )
  => /\ lastCall.path = "cached"
     /\ lastCall.ret = lastSuccess[lastCall.key].data
     /\ Len(builds) = lastCall.len

\* The largest power of 1024 that does not exceed a byte count below 1024^4.
LargestUnit(bytes) ==
  CHOOSE i \in 0..3 : Pow(i) <= bytes /\ (i < 3 => bytes < Pow(i + 1))

\* C26 as stated: formatSize(0) is "0B"; for a byte count from 1 the text is a
\* number and the unit of the largest power of 1024 not above the count, the
\* number being the count divided by that power, rounded to two decimals,
\* below 1024, and written without a decimal point when it is whole; 24576
\* gives "24KB" and 1048576 gives "1MB".
C26_FormatSize ==
  IsCall("formatSize") =>
    LET bytes == lastCall.bytes
        i == LargestUnit(bytes)
        unit == Pow(i)
        rest == 100 * (bytes % unit) - (lastCall.value - 100 * (bytes \div unit)) * unit
    IN  /\ bytes = 0 => lastCall.ret = "0B"
        /\ bytes = 24576 => lastCall.ret = "24KB"
        /\ bytes = 1048576 => lastCall.ret = "1MB"
        /\ bytes >= 1 =>
             /\ lastCall.ret = FormattedValue(lastCall.value) \o sizes[i + 1]
             /\ i < 3 => (2 * rest <= unit /\ -2 * rest <= unit)
             /\ lastCall.value < 100 * 1024
             /\ lastCall.value % 100 = 0
                  => lastCall.ret = ToString(lastCall.value \div 100) \o sizes[i + 1]

\* The builds whose getBundleSize call has not run its finally block yet.
Unfinished == {b \in BuildIds : builds[b].phase \in {"bundling", "settled"}}

\* C27: the pending entry of a build of the current generation stays in place,
\* holding that build's promise, until the build's own finally block has run:
\* the finally block of another build of the key, started before a clearCache,
\* does not delete it; and a finally block deletes nothing but the entry that
\* holds its own promise.
C27_OwnEntryOnly ==
  [][ /\ \A b \in BuildIds :
           ( /\ builds'[b].phase \in {"bundling", "settled"}
             /\ builds'[b].generation = cacheGeneration' )
           => /\ MapHas(pendingBuilds', builds'[b].cacheKey)
              /\ pendingBuilds'[builds'[b].cacheKey].promise = b
      /\ \A b \in BuildIds :
           (builds[b].phase = "settled" /\ builds'[b].phase = "done")
           => pendingBuilds' =
                IF /\ MapHas(pendingBuilds, builds[b].cacheKey)
                   /\ pendingBuilds[builds[b].cacheKey].promise = b
                  THEN MapDelete(pendingBuilds, builds[b].cacheKey)
                  ELSE pendingBuilds ]_vars

\* The finally block of a build started before the clearCache has run while the
\* pending entry of its key held the build started after it, and has left it.
C27_Witness ==
  \E old, new \in BuildIds :
    /\ builds[old].phase = "done" /\ builds[old].cleared
    /\ builds[new].phase = "bundling"
    /\ builds[new].generation = cacheGeneration
    /\ builds[new].cacheKey = builds[old].cacheKey
    /\ MapHas(pendingBuilds, builds[new].cacheKey)
    /\ pendingBuilds[builds[new].cacheKey].promise = new

\* The pending map holds the promise of build b.
HoldsPromise(b) ==
  \E cacheKey \in DOMAIN pendingBuilds : pendingBuilds[cacheKey].promise = b

\* C28 as stated: whenever no build is being bundled the pending map is empty
\* and getBundleCacheState does not report "pending".
C28_EmptyWhenNothingInFlight ==
  (\A b \in BuildIds : builds[b].phase # "bundling")
  => /\ pendingBuilds = EmptyMap
     /\ IsCall("getBundleCacheState") => lastCall.ret # "pending"

\* C28 amended: a build that has settled, with a result or with null, has its
\* finally block run in the end, after which the pending map no longer holds
\* its promise; the pending map only ever holds promises of builds whose
\* finally block has not run, so that whenever every getBundleSize call that
\* started a build has run its finally block the pending map is empty and
\* getBundleCacheState does not report "pending".
C28_PendingRemoved ==
  /\ [](\A b \in BuildIds : builds[b].phase = "done" => ~HoldsPromise(b))
  /\ []((\A b \in BuildIds : builds[b].phase = "done")
          => /\ pendingBuilds = EmptyMap
             /\ IsCall("getBundleCacheState") => lastCall.ret # "pending")
  /\ \A b \in 1..MaxBuilds :
       (b \in BuildIds /\ builds[b].phase = "settled")
         ~> (b \in BuildIds /\ builds[b].phase = "done" /\ ~HoldsPromise(b))

\* getBundleCacheState has reported something other than "pending" for the key
\* of a build that settled null and whose finally block has emptied the
\* pending map.
C28_Witness ==
  /\ IsCall("getBundleCacheState")
  /\ lastCall.ret = "failed"
  /\ pendingBuilds = EmptyMap
  /\ \E b \in BuildIds : builds[b].phase = "done" /\ builds[b].cacheKey = lastCall.key
  /\ \A b \in BuildIds : builds[b].phase = "done"

\* An entry that is stored for the key and has outlived its TTL.
ExpiredPositive(cacheKey) == MapHas(cache, cacheKey) /\ ~CacheFresh(cacheKey)

ExpiredNegative(cacheKey) == MapHas(failedPackages, cacheKey) /\ ~FailedFresh(cacheKey)

\* C29 as stated: after a getBundleSize, getCachedBundleSize or
\* getBundleCacheState call for a key, no expired positive entry is stored for
\* the key, and no expired negative entry where the call has looked at the
\* negative cache.
C29_LazyEviction ==
  ( /\ lastCall # NoCall
    /\ lastCall.op \in {"getBundleSize", "getCachedBundleSize", "getBundleCacheState"} )
  => /\ ~ExpiredPositive(lastCall.key)
     /\ lastCall.op = "getBundleSize" => ~ExpiredNegative(lastCall.key)
     /\ (lastCall.op = "getBundleCacheState" /\ lastCall.ret \in {"missing", "unavailable"})
          => ~ExpiredNegative(lastCall.key)

\* The builds of other keys that have not settled.
OthersInFlight(cacheKey) ==
  {b \in BuildIds : builds[b].phase = "bundling" /\ builds[b].cacheKey # cacheKey}

\* C30: with builds that have not settled, and may never, (1) a getBundleSize
\* call for another key that has no fresh entry and no pending build starts a
\* build; (2) every build in flight can settle, whichever others have not;
\* (3) a build that settles with a result under the current generation is
\* cached; (4) after a clearCache a call for the key of a build still in
\* flight gets a build of the new generation, which the first such call
\* starts.
C30_HangIsolated ==
  /\ ( /\ IsCall("getBundleSize")
       /\ OthersInFlight(lastCall.key) # {}
       /\ ~CacheFresh(lastCall.key)
       /\ ~FailedFresh(lastCall.key)
       /\ lastCall.pending = NoPending )
     => /\ lastCall.path = "started"
        /\ Len(builds) = lastCall.len + 1
        /\ builds[lastCall.promise].phase = "bundling"
  /\ lastCall = NoCall =>
       \A b \in BuildIds :
         builds[b].phase = "bundling" =>
           ENABLED (\E outcome \in BuildOutcomes, files \in OutputFiles :
                      BuildSettle(b, outcome, files))
  /\ \A b \in BuildIds :
       ( /\ builds[b].phase = "settled"
         /\ builds[b].outcome = "ok"
         /\ builds[b].generation = cacheGeneration )
       => /\ MapHas(cache, builds[b].cacheKey)
          /\ cache[builds[b].cacheKey].data = builds[b].value
  /\ ( /\ IsCall("getBundleSize")
       /\ StaleInFlight(lastCall.key) # {}
       /\ ~CacheFresh(lastCall.key)
       /\ ~FailedFresh(lastCall.key) )
     => /\ lastCall.promise \in BuildIds \ StaleInFlight(lastCall.key)
        /\ builds[lastCall.promise].generation = cacheGeneration
        /\ lastCall.pending = NoPending => lastCall.path = "started"

\* While a build started before the clearCache is still in flight, a build of
\* the same key started after it has settled with a result that is cached.
C30_Witness ==
  \E hung, fresh \in BuildIds :
    /\ builds[hung].phase = "bundling" /\ builds[hung].cleared
    /\ builds[fresh].phase = "settled"
    /\ builds[fresh].cacheKey = builds[hung].cacheKey
    /\ builds[fresh].generation = cacheGeneration
    /\ builds[fresh].value # Null
    /\ MapHas(cache, builds[fresh].cacheKey)
    /\ cache[builds[fresh].cacheKey].data = builds[fresh].value

\* While a build is still in flight, a build of another key started after it
\* has settled with a result that is cached.
C30_OtherKeyCached ==
  \E hung, other \in BuildIds :
    /\ hung < other
    /\ builds[hung].phase = "bundling" /\ ~builds[hung].cleared
    /\ builds[other].phase = "done"
    /\ builds[other].cacheKey # builds[hung].cacheKey
    /\ MapHas(cache, builds[other].cacheKey)
    /\ cache[builds[other].cacheKey].data.ref = other

\* The result of build b when esbuild.build has written the given files.
MeasuredSizes(b, files) ==
  [name |-> builds[b].request.displayName, size |-> files.minified,
   gzip |-> files.gzip,
   version |-> VersionLabel(builds[b].request, builds[b].manifest), ref |-> b]

\* C31: a build that was in flight during a clearCache can still settle, and
\* when it does its promise (the one the call that started it awaits and
\* every call that joined it was handed) is fulfilled with the build's own
\* result, the measured sizes when esbuild wrote files and null otherwise;
\* the step writes neither cache, starts no build and leaves the pending map
\* as it is.
C31_NoCancellation ==
  /\ [](lastCall = NoCall =>
          \A b \in BuildIds :
            (builds[b].phase = "bundling" /\ builds[b].cleared) =>
              ENABLED (\E outcome \in BuildOutcomes, files \in OutputFiles :
                         BuildSettle(b, outcome, files)))
  /\ [][\A b \in BuildIds :
          ( /\ builds[b].phase = "bundling"
            /\ builds[b].cleared
            /\ builds'[b].phase = "settled" )
          => /\ builds'[b].waiters = builds[b].waiters
             /\ builds'[b].outcome = "ok" =>
                  \E files \in OutputFiles : builds'[b].value = MeasuredSizes(b, files)
             /\ builds'[b].outcome # "ok" => builds'[b].value = Null
             /\ ~builds'[b].rejected
             /\ cache' = cache
             /\ failedPackages' = failedPackages
             /\ pendingBuilds' = pendingBuilds
             /\ Len(builds') = Len(builds)]_vars

\* A build that two calls await has settled with its sizes after a clearCache,
\* and nothing is cached for its key.
C31_Witness ==
  \E b \in BuildIds :
    /\ builds[b].phase = "settled" /\ builds[b].cleared
    /\ builds[b].waiters >= 2
    /\ builds[b].outcome = "ok"
    /\ builds[b].value # Null
    /\ builds[b].value.size = 2048
    /\ ~MapHas(cache, builds[b].cacheKey)
    /\ ~MapHas(pendingBuilds, builds[b].cacheKey)

\* The same with a build that failed: its callers get null.
C31_FailedAfterClear ==
  \E b \in BuildIds :
    /\ builds[b].phase = "settled" /\ builds[b].cleared
    /\ builds[b].waiters >= 2
    /\ builds[b].outcome = "throw"
    /\ builds[b].value = Null
    /\ ~MapHas(failedPackages, builds[b].cacheKey)

\* The scope getEsbuild warns under for a root.
ScopeOf(workspaceRoot) == IF workspaceRoot = "" THEN "global" ELSE workspaceRoot

WarningScopes == {ScopeOf(workspaceRoot) : workspaceRoot \in WarningRoots}

\* C32: since the last clearCache at most one message has been logged for a
\* scope, however many calls have found no esbuild there; and whenever a call
\* of isBundlingAvailable, getBundleSize or getBundleCacheState has found none,
\* exactly one message has been logged for its scope since the last clearCache
\* (so the first miss after a clearCache logs again).
C32_WarnedOnce ==
  /\ \A scope \in WarningScopes : Logged(scope) <= 1
  /\ \A scope \in DOMAIN warnings : scope \in warnedMissingEsbuild
  /\ (IsCall("isBundlingAvailable") /\ ~lastCall.ret)
       => Logged(ScopeOf(lastCall.root)) = 1
  /\ ( /\ IsCall("getBundleSize")
       /\ lastCall.path = "started"
       /\ ~builds[lastCall.promise].esbuild )
       => Logged(ScopeOf(builds[lastCall.promise].workspaceRoot)) = 1
  /\ (IsCall("getBundleCacheState") /\ lastCall.ret = "unavailable")
       => \E workspaceRoot \in WarningRoots :
            /\ lastCall.key = CacheKey(workspaceRoot, "b")
            /\ Logged(ScopeOf(workspaceRoot)) = 1

\* After a clearCache, a call has found no esbuild for a root that had been
\* warned about since, and each scope has one message.
C32_Witness ==
  /\ cacheGeneration = 1
  /\ IsCall("isBundlingAvailable")
  /\ lastCall.warned
  /\ ~lastCall.ret
  /\ Logged("/w1") = 1
  /\ Logged("global") = 1

\* A request has been made of the import of the last call.
MadeRequest == IsCall("getImportCacheId") /\ lastCall.request # Null

\* The specifier of the last call's request as it is written in the entry.
QuotedSpecifier ==
  "\"" \o SpecifierText(NormalizeModuleSpecifier(lastCall.target.packageName)) \o "\""

\* The names the last call's request re-exports.
RequestedNames == NamedImportsOf(lastCall.target.namedImports)

\* No runtime binding is asked for by the import of the last call.
NoBindings ==
  /\ ~lastCall.target.isExportAll
  /\ ~lastCall.target.hasDefaultImport
  /\ ~lastCall.target.hasNamespaceImport
  /\ RequestedNames = << >>

\* C33: the entry of a request is the export-star line alone for an export-all;
\* else the bare import alone when the import is flagged side-effect-only or
\* asks for no binding; else the namespace import and its re-export alone for
\* a namespace import; else the default re-export line if and only if a
\* default import is asked for, followed by the named re-export line if and
\* only if the list of names is not empty.
C33_EntryContent ==
  MadeRequest =>
    LET t == lastCall.target
        entry == lastCall.request.entryContent
        defaultLine == "export { default as __bundleSizePlusDefault } from "
                         \o QuotedSpecifier \o ";"
        namedLine == "export { " \o Join(RequestedNames, ", ") \o " } from "
                         \o QuotedSpecifier \o ";"
    IN  /\ t.isExportAll => entry = "export * from " \o QuotedSpecifier \o ";"
        /\ (~t.isExportAll /\ (t.isSideEffectOnly \/ NoBindings))
             => entry = "import " \o QuotedSpecifier \o ";"
        /\ (~t.isExportAll /\ ~t.isSideEffectOnly /\ t.hasNamespaceImport)
             => entry = "import * as __bundleSizePlusNs from " \o QuotedSpecifier
                          \o ";\nexport { __bundleSizePlusNs };"
        /\ ( /\ ~t.isExportAll /\ ~t.isSideEffectOnly /\ ~t.hasNamespaceImport
             /\ ~NoBindings )
             => /\ (t.hasDefaultImport /\ RequestedNames # << >>)
                     => entry = defaultLine \o "\n" \o namedLine
                /\ (t.hasDefaultImport /\ RequestedNames = << >>)
                     => entry = defaultLine
                /\ (~t.hasDefaultImport /\ RequestedNames # << >>)
                     => entry = namedLine

\* A request for a default import and two names has both lines.
C33_Witness ==
  /\ MadeRequest
  /\ ~lastCall.target.isExportAll /\ ~lastCall.target.isSideEffectOnly
  /\ ~lastCall.target.hasNamespaceImport
  /\ lastCall.target.hasDefaultImport
  /\ Len(RequestedNames) = 2
  /\ lastCall.request.entryContent =
       "export { default as __bundleSizePlusDefault } from \"lodash\";\nexport { a, b } from \"lodash\";"

\* A namespace import written with a default import and a name has the
\* namespace lines only.
C33_NamespaceWins ==
  /\ MadeRequest
  /\ ~lastCall.target.isExportAll /\ ~lastCall.target.isSideEffectOnly
  /\ lastCall.target.hasNamespaceImport /\ lastCall.target.hasDefaultImport
  /\ RequestedNames # << >>
  /\ lastCall.request.entryContent =
       "import * as __bundleSizePlusNs from \"lodash\";\nexport { __bundleSizePlusNs };"

\* The prefixes for which getRootPackageName gives null.
NoRootPrefixes == {"./", "../", "/", "~/", "@/", "#/", "node:"}

\* A scoped specifier that has a name after its scope.
HasNameSegment(moduleSpecifier) ==
  Len(moduleSpecifier.parts) >= 2 /\ moduleSpecifier.parts[2] # ""

\* C34 as stated: the root package name of a request is null for a specifier
\* with one of the relative, absolute, alias or built-in prefixes, @scope/name
\* for a scoped specifier, null for a scoped specifier without a name, and the
\* first path segment for any other specifier.
C34_RootPackageName ==
  MadeRequest =>
    LET m == NormalizeModuleSpecifier(lastCall.target.packageName)
        root == lastCall.request.versionPackageName
    IN  /\ m.prefix \in NoRootPrefixes => root = "null"
        /\ (m.prefix = "@" /\ HasNameSegment(m))
             => root = "@" \o m.parts[1] \o "/" \o m.parts[2]
        /\ (m.prefix = "@" /\ ~HasNameSegment(m)) => root = "null"
        /\ m.prefix = "" => root = m.parts[1]

\* C34 with the segments taken as the pieces between the "/" of the specifier,
\* empty ones included: a scoped specifier with a "/" yields its first two
\* segments joined by "/", one without a "/" yields null.
C34_RootPackageNameBySplit ==
  MadeRequest =>
    LET m == NormalizeModuleSpecifier(lastCall.target.packageName)
        root == lastCall.request.versionPackageName
    IN  /\ m.prefix \in NoRootPrefixes => root = "null"
        /\ (m.prefix = "@" /\ Len(m.parts) >= 2)
             => root = "@" \o m.parts[1] \o "/" \o m.parts[2]
        /\ (m.prefix = "@" /\ Len(m.parts) < 2) => root = "null"
        /\ m.prefix = "" => root = m.parts[1]

\* A request has been made of "@scope/": its root package name is "@scope/".
C34_Witness ==
  /\ MadeRequest
  /\ NormalizeModuleSpecifier(lastCall.target.packageName) =
       [prefix |-> "@", parts |-> <<"scope", "">>]
  /\ lastCall.request.versionPackageName = "@scope/"

\* A request has been made of "@scope": it has no root package name.
C34_ScopeAlone ==
  /\ MadeRequest
  /\ NormalizeModuleSpecifier(lastCall.target.packageName) =
       [prefix |-> "@", parts |-> <<"scope">>]
  /\ lastCall.request.versionPackageName = "null"

\* A request has been made of a relative specifier that was not flagged local.
C34_RelativeNotLocal ==
  /\ MadeRequest
  /\ lastCall.target.packageName.prefix = "../"
  /\ lastCall.request.versionPackageName = "null"

\* The normalized signature of an import: what its request is made of.
Signature(t) ==
  [kind |-> IF t.kind = "undefined" THEN "import" ELSE t.kind,
   specifier |-> SpecifierText(NormalizeModuleSpecifier(t.packageName)),
   all |-> t.isExportAll, default |-> t.hasDefaultImport,
   ns |-> t.hasNamespaceImport,
   side |-> (t.isSideEffectOnly
               \/ ( /\ ~t.isExportAll /\ ~t.hasDefaultImport /\ ~t.hasNamespaceImport
                    /\ NamedImportsOf(t.namedImports) = << >> )),
   named |-> NamedImportsOf(t.namedImports)]

\* C35 as stated: an import whose normalized signature differs from that of
\* the import of the last call has another id, whatever text its specifier
\* and its names hold.
C35_CollisionFree ==
  MadeRequest =>
    \A other \in SeparatorImports :
      Signature(other) # Signature(lastCall.target)
        => CreateBundleRequest(other).id # lastCall.ret

\* The same over the imports none of whose names holds a ",": the text of a
\* specifier alone makes no two ids equal.
C35_SpecifierTextHarmless ==
  ( /\ MadeRequest
    /\ \A i \in 1..Len(lastCall.target.namedImports) :
         lastCall.target.namedImports[i] # "a,b" ) =>
    \A other \in SeparatorImports :
      ( /\ \A i \in 1..Len(other.namedImports) : other.namedImports[i] # "a,b"
        /\ Signature(other) # Signature(lastCall.target) )
        => CreateBundleRequest(other).id # lastCall.ret

\* The builds whose plugin is at work.
Bundling == {b \in BuildIds : builds[b].phase = "bundling"}

\* The last step has answered a resolution event for a pair whose outcome the
\* build had recorded.
AnsweredRecorded == IsCall("onResolve") /\ lastCall.cached # Undefined

\* C36: a resolution event for an importer and path whose outcome the build
\* has recorded gets that outcome, and no build.resolve is called for it; a
\* build.resolve is called only for a pair without a recorded outcome, and its
\* outcome is recorded; a build starts with an empty memo and its memo holds
\* nothing but outcomes of its own build.resolve calls.
C36_Memoized ==
  /\ AnsweredRecorded
       => /\ lastCall.ret = lastCall.cached
          /\ ~lastCall.nested
          /\ lastCall.build \in Bundling
               => builds[lastCall.build].resolveCache[<<lastCall.importer, lastCall.path>>]
                    = lastCall.cached
  /\ (IsCall("onResolve") /\ lastCall.nested)
       => /\ lastCall.cached = Undefined
          /\ lastCall.build \in Bundling
               => builds[lastCall.build].resolveCache[<<lastCall.importer, lastCall.path>>]
                    = lastCall.ret
  /\ \A b \in Bundling :
       /\ builds[b].events = 0 => builds[b].resolveCache = EmptyMap
       /\ DOMAIN builds[b].resolveCache \subseteq DOMAIN builds[b].resolves

\* An import that was externalized when it could not be found is answered from
\* the memo, as external, on a later event of the same build.
C36_Witness ==
  /\ AnsweredRecorded
  /\ lastCall.ret.external
  /\ lastCall.ret = lastCall.cached
  /\ lastCall.build \in Bundling
  /\ builds[lastCall.build].events >= 2
  /\ builds[lastCall.build].resolves[<<lastCall.importer, lastCall.path>>] = 1

\* Two builds at work hold different outcomes for the same pair.
C36_MemoPerBuild ==
  \E b1, b2 \in Bundling, args \in MemoArgs :
    /\ b1 # b2
    /\ MapHas(builds[b1].resolveCache, MemoKey(args))
    /\ MapHas(builds[b2].resolveCache, MemoKey(args))
    /\ builds[b1].resolveCache[MemoKey(args)].external
    /\ ~builds[b2].resolveCache[MemoKey(args)].external

\* The callbacks of build b that wait for their build.resolve call.
Waiting(b) == {builds[b].waiting[i] : i \in 1..Len(builds[b].waiting)}

\* The resolution event a build.resolve call of the callback raises.
Marked(args, found) ==
  [importer |-> args.importer, path |-> args.path, found |-> found,
   skipResolve |-> TRUE]

\* C39: a resolution event makes the callback call build.resolve at most once
\* (no waiting callback is more than one call deep, and an answered event has
\* cost one call or none); the callback returns undefined for the event that
\* call raises, whatever its memo holds; and every waiting callback is
\* answered.
C39_NoReentry ==
  /\ [](\A b \in Bundling :
          /\ \A e \in Waiting(b) : e.depth = 1
          /\ \A args \in MemoArgs, found \in BOOLEAN :
               OnResolveBareSync(b, Marked(args, found)).do = "undefined")
  /\ [](IsCall("onResolve") =>
          lastCall.depth = (IF lastCall.nested THEN 1 ELSE 0))
  /\ \A b \in 1..MaxBuilds :
       (b \in Bundling /\ builds[b].waiting # << >>)
         ~> (b \in BuildIds /\ (b \in Bundling => builds[b].waiting = << >>))

\* An event of a package in node_modules has been answered after one
\* build.resolve call, while another callback of the build is still waiting.
C39_Witness ==
  /\ IsCall("onResolve")
  /\ lastCall.nested
  /\ lastCall.depth = 1
  /\ lastCall.build \in Bundling
  /\ builds[lastCall.build].waiting # << >>
  /\ builds[lastCall.build].resolves[<<lastCall.importer, lastCall.path>>] >= 1

\* C37: every entry of the pending map carries the current generation, and the
\* pending entry a getBundleSize call finds for its key carries the generation
\* the call has read: a call that gets as far as the pending lookup and finds
\* an entry joins it.
C37_PendingOfCurrentGeneration ==
  /\ \A cacheKey \in DOMAIN pendingBuilds :
       pendingBuilds[cacheKey].generation = cacheGeneration
  /\ (IsCall("getBundleSize") /\ lastCall.pending # NoPending)
       => /\ lastCall.pending.generation = cacheGeneration
          /\ lastCall.path \in {"cached", "failed", "joined"}
          /\ lastCall.path = "joined" => lastCall.promise = lastCall.pending.promise

\* After a clearCache, with a build of the key from before it still in flight,
\* a call has joined the build started since.
C37_Witness ==
  /\ IsCall("getBundleSize")
  /\ cacheGeneration = 1
  /\ lastCall.path = "joined"
  /\ lastCall.pending.generation = 1
  /\ StaleInFlight(lastCall.key) # {}

\* C38: no key has a fresh positive entry and a fresh negative entry at once.
C38_NeverBothFresh ==
  \A cacheKey \in KeySet : ~(CacheFresh(cacheKey) /\ FailedFresh(cacheKey))

\* A key has both entries: the negative one has expired, and the positive one,
\* written by the build made after that, is fresh.
C38_Witness ==
  \E cacheKey \in KeySet :
    /\ MapHas(cache, cacheKey) /\ MapHas(failedPackages, cacheKey)
    /\ CacheFresh(cacheKey)
    /\ ~FailedFresh(cacheKey)
    /\ failedPackages[cacheKey] < cache[cacheKey].timestamp

\* The other way round: the positive entry has expired and the build made
\* after that has failed.
C38_FailedAfterExpiry ==
  \E cacheKey \in KeySet :
    /\ MapHas(cache, cacheKey) /\ MapHas(failedPackages, cacheKey)
    /\ ~CacheFresh(cacheKey)
    /\ FailedFresh(cacheKey)
    /\ cache[cacheKey].timestamp < failedPackages[cacheKey]

====
